---- MODULE Spec2Model ----
(***************************************************************************)
(* react-hook-form-ai: the provider execution engine (aiProviders.ts), the *)
(* ambient configuration and the assistant facade (AIFormProvider.tsx,     *)
(* which also holds utils/useAIAssistant) and the form integration layer   *)
(* (useForm.ts).                                                           *)
(*                                                                         *)
(* JavaScript values are modelled as follows.  An object with optional     *)
(* properties is a record whose DOMAIN holds the properties that are       *)
(* defined; `x ?? y` is Coalesce over such records.  A value that may be   *)
(* null is a set with at most one element: Null is {} and Some(v) is {v}.  *)
(***************************************************************************)
EXTENDS Integers, Sequences, FiniteSets, TLC

VARIABLES
  props,          \* AIFormProviderProps of the ambient AIFormProvider
  contextValue,   \* the AIFormContextValue it publishes (NoContext: none)
  aiOptions,      \* the `ai` options of useForm
  mergedConfig,   \* useForm's mergedConfig
  effectiveConfig,\* useAIAssistant's effectiveConfig
  enabled,        \* useAIAssistant's `enabled` option
  formContextRef, \* useAIAssistant's formContextRef.current
  calls,          \* the suggestValue / autofill calls of the assistant
  formValues,     \* the host form's field values
  dirtyFields,    \* the fields the host form holds as dirty and touched
  mounted,        \* whether the form component is mounted
  blurs,          \* onBlur handlers awaiting baseRegister.onBlur
  debounceTimers, \* debounceTimers.current: field -> timer id (0: no entry)
  armed,          \* timer ids that are scheduled and have neither fired nor been cleared
  nextTimer,      \* the id setTimeout returns next
  timerLog,       \* log: what became of every timer
  aiLoading,      \* useForm's aiLoading state
  aiDownloadProgress, \* useForm's aiDownloadProgress state (Null: null)
  aiOps,          \* log: the aiAutofill / aiSuggest invocations of the form
  aiAvailability, \* useForm's aiAvailability state (Null: null)
  refreshes,      \* log: the refreshAvailability invocations of the form
  refreshAi,      \* the effectiveConfig of the `ai` that refreshAvailability closed over
  sessions,       \* log: the on-device sessions created, open or destroyed
  runs            \* the runs of provider executors and availability checks

vars == <<props, contextValue, aiOptions, mergedConfig, effectiveConfig, enabled,
          formContextRef, calls, formValues, dirtyFields, mounted, blurs,
          debounceTimers, armed, nextTimer, timerLog,
          aiLoading, aiDownloadProgress, aiOps, aiAvailability, refreshes, refreshAi,
          sessions, runs>>

cfgVars  == <<props, contextValue, aiOptions, mergedConfig>>
formVars == <<formValues, dirtyFields, mounted, blurs, debounceTimers, armed, nextTimer,
              timerLog>>
availVars == <<aiAvailability, refreshes, refreshAi>>
loadVars == <<aiLoading, aiDownloadProgress, aiOps, availVars>>
provVars == <<sessions, runs>>

-----------------------------------------------------------------------------
(* Values *)

Null == {}
Some(v) == {v}
Val(o) == CHOOSE v \in o : TRUE

NoContext == [k \in {} |-> k]
Has(r, k) == k \in DOMAIN r

\* a JavaScript value that may be a string or an object carries its typeof
StringValue(text) == [t |-> "string", s |-> text]
ObjectValue(m)    == [t |-> "object", o |-> m]

\* The kinds createAIProvider knows (aiProviders.ts) and the one that the type
\* declarations name but createAIProvider rejects.
KnownTypes == {"chrome", "openai", "custom", "browser"}
DeclaredOnlyType == "chrome-ai"

RECURSIVE SeqsUpTo(_, _)
SeqsUpTo(S, n) ==
  IF n = 0 THEN {<<>>}
  ELSE LET shorter == SeqsUpTo(S, n - 1)
       IN  shorter \cup {Append(s, x) : s \in {t \in shorter : Len(t) = n - 1}, x \in S}

\* Provider descriptors with the optional `enabled` and `priority` properties.
Descriptors(types, enabledVals, priorities) ==
  {[type |-> t] : t \in types}
  \cup {[type |-> t, enabled |-> e] : t \in types, e \in enabledVals}
  \cup {[type |-> t, priority |-> n] : t \in types, n \in priorities}
  \cup {[type |-> t, enabled |-> e, priority |-> n] :
          t \in types, e \in enabledVals, n \in priorities}

-----------------------------------------------------------------------------
(* AIFormProvider: the derived execution order *)

\* p.enabled !== false
IsEnabled(p) == ~(Has(p, "enabled") /\ p.enabled = FALSE)

\* (p.priority || 0)
PriorityOf(p) == IF Has(p, "priority") THEN p.priority ELSE 0

\* the comparator (a, b) => (b.priority || 0) - (a.priority || 0)
Compare(a, b) == PriorityOf(b) - PriorityOf(a)

\* Array.prototype.sort is stable: an element is placed after every element
\* the comparator does not order after it.
RECURSIVE InsertSorted(_, _)
InsertSortedMutant(s, x) ==
  IF s = <<>> THEN <<x>>
  ELSE IF Compare(Head(s), x) < 0 THEN <<Head(s)>> \o InsertSorted(Tail(s), x)
  ELSE <<x>> \o s
InsertSorted(s, x) ==
  IF s = <<>> THEN <<x>>
  ELSE IF Compare(Head(s), x) <= 0 THEN <<Head(s)>> \o InsertSorted(Tail(s), x)
  ELSE <<x>> \o s

RECURSIVE StableSort(_)
StableSort(s) ==
  IF s = <<>> THEN <<>>
  ELSE InsertSorted(StableSort(SubSeq(s, 1, Len(s) - 1)), s[Len(s)])

TypesOf(s) == [i \in 1..Len(s) |-> s[i].type]

\* the useMemo body of AIFormProvider
SortedProviders(p) ==
  IF Has(p, "executionOrder") /\ Len(p.executionOrder) > 0
  THEN p.executionOrder
  ELSE TypesOf(StableSort(SelectSeq(p.providers, IsEnabled)))

\* the defaults of AIFormProvider's destructured props
DefaultFallbackOnError == TRUE
DefaultEnabled == TRUE
DefaultDebounceMs == 800
DefaultExcludeFields == {}

PropOr(p, k, d) == IF Has(p, k) THEN p[k] ELSE d

\* the contextValue AIFormProvider publishes
AIFormProvider(p) ==
  [providers       |-> p.providers,
   executionOrder  |-> SortedProviders(p),
   fallbackOnError |-> PropOr(p, "fallbackOnError", DefaultFallbackOnError),
   enabled         |-> PropOr(p, "enabled", DefaultEnabled),
   debounceMs      |-> PropOr(p, "debounceMs", DefaultDebounceMs),
   excludeFields   |-> PropOr(p, "excludeFields", DefaultExcludeFields)]

-----------------------------------------------------------------------------
(* aiProviders.ts: createAIProvider and executeAIProviders *)

Min(S) == CHOOSE x \in S : \A y \in S : x <= y

\* providers.find(p => p.type === providerType && p.enabled !== false):
\* the index of the first match, 0 when there is none
FindConfigMutant(providers, t) ==
  LET S == {j \in 1..Len(providers) : providers[j].type = t}
  IN  IF S = {} THEN 0 ELSE Min(S)
FindConfigLastMutant(providers, t) ==
  LET S == {j \in 1..Len(providers) : providers[j].type = t /\ IsEnabled(providers[j])}
  IN  IF S = {} THEN 0 ELSE CHOOSE j \in S : \A k \in S : k <= j
FindConfig(providers, t) ==
  LET S == {j \in 1..Len(providers) : providers[j].type = t /\ IsEnabled(providers[j])}
  IN  IF S = {} THEN 0 ELSE Min(S)

\* createAIProvider returns an executor for the kinds of its switch and throws
\* for any other
CanCreate(config) == config.type \in KnownTypes

EmptyResult == [result |-> Null, provider |-> Null]

\* how the loop stands: returned (resolved with r), threw out of the function
\* (the promise rejects), or awaiting the executor of providers[j] at entry i
Returned(r)    == [done |-> TRUE, rejected |-> FALSE, ret |-> r, pos |-> 0, idx |-> 0]
Rejected       == [done |-> TRUE, rejected |-> TRUE, ret |-> EmptyResult, pos |-> 0, idx |-> 0]
Awaiting(i, j) == [done |-> FALSE, rejected |-> FALSE, ret |-> EmptyResult, pos |-> i, idx |-> j]

\* The loop of executeAIProviders from order entry i up to its next await
\* (the executor of providers[idx] is running) or its return.
RECURSIVE Advance(_, _)
AdvanceMutant(cfg, i) ==
  IF i > Len(cfg.executionOrder) THEN Returned(EmptyResult)
  ELSE LET j == FindConfig(cfg.providers, cfg.executionOrder[i])
       IN  IF j = 0 THEN Advance(cfg, i + 1)
           ELSE IF ~CanCreate(cfg.providers[j])
                THEN Advance(cfg, i + 1)
                ELSE Awaiting(i, j)
AdvanceSkipFailsMutant(cfg, i) ==
  IF i > Len(cfg.executionOrder) THEN Returned(EmptyResult)
  ELSE LET j == FindConfig(cfg.providers, cfg.executionOrder[i])
       IN  IF j = 0 \/ ~CanCreate(cfg.providers[j])
           THEN IF ~cfg.fallbackOnError
                THEN Returned(EmptyResult)
                ELSE Advance(cfg, i + 1)
           ELSE Awaiting(i, j)
Advance(cfg, i) ==
  IF i > Len(cfg.executionOrder) THEN Returned(EmptyResult)
  ELSE LET j == FindConfig(cfg.providers, cfg.executionOrder[i])
       IN  IF j = 0 THEN Advance(cfg, i + 1)
           ELSE IF ~CanCreate(cfg.providers[j])
                THEN IF ~cfg.fallbackOnError
                     THEN Returned(EmptyResult)
                     ELSE Advance(cfg, i + 1)
                ELSE Awaiting(i, j)

\* The await of executor(provider) at order entry i settles with `outcome`:
\* a value (result !== null), null, or a thrown error.
SettleTagMutant(cfg, i, outcome) ==
  IF outcome.kind = "value"
  THEN Returned([result |-> outcome.val, provider |-> Some(cfg.executionOrder[1])])
  ELSE IF ~cfg.fallbackOnError
       THEN Returned(EmptyResult)
       ELSE Advance(cfg, i + 1)
SettleNoStopMutant(cfg, i, outcome) ==
  IF outcome.kind = "value"
  THEN Returned([result |-> outcome.val, provider |-> Some(cfg.executionOrder[i])])
  ELSE Advance(cfg, i + 1)
SettleNoCatchMutant(cfg, i, outcome) ==
  IF outcome.kind = "value"
  THEN Returned([result |-> outcome.val, provider |-> Some(cfg.executionOrder[i])])
  ELSE IF outcome.kind = "throw"
       THEN Rejected
       ELSE IF ~cfg.fallbackOnError
            THEN Returned(EmptyResult)
            ELSE Advance(cfg, i + 1)
Settle(cfg, i, outcome) ==
  IF outcome.kind = "value"
  THEN Returned([result |-> outcome.val, provider |-> Some(cfg.executionOrder[i])])
  ELSE IF ~cfg.fallbackOnError
       THEN Returned(EmptyResult)
       ELSE Advance(cfg, i + 1)

-----------------------------------------------------------------------------
(* utils/useAIAssistant: suggestValue and autofill *)

Range(s) == {s[i] : i \in 1..Len(s)}

\* Object.fromEntries(fields.map((f) => [f, `Example_${f}`]))
ExampleMap(fields) == [f \in Range(fields) |-> "Example_" \o f]

\* Object.fromEntries(fields.map((f) => [f, 'AI disabled']))
DisabledMapMutant(fields) == [f \in Range(SubSeq(fields, 1, 1)) |-> "AI disabled"]
DisabledMap(fields) == [f \in Range(fields) |-> "AI disabled"]

\* What the executor of providers[j] answers when it answers with a value: an
\* AIResponse for suggestValue, an AutofillData for autofill.
AnswerOf(op, j, type, fields) ==
  IF op = "suggest"
  THEN [suggestion |-> "suggestion_" \o ToString(j), provider |-> type]
  ELSE [f \in Range(fields) |-> "ai" \o ToString(j) \o "_" \o f]

Outcome(kind, op, j, type, fields) ==
  [kind |-> kind,
   val  |-> IF kind = "value" THEN Some(AnswerOf(op, j, type, fields)) ELSE Null]

OutcomeKinds == {"value", "null", "throw"}
Pending == [kind |-> "pending", val |-> Null]

IdleCall ==
  [pc |-> "idle", op |-> "none", by |-> "none", name |-> "", value |-> "",
   fields |-> <<>>, ctx |-> NoContext, pos |-> 0, tried |-> <<>>,
   exec |-> Null, ret |-> Null, rejected |-> FALSE, afterUnmount |-> FALSE]

\* what the facade makes of executeAIProviders' return
FacadeReturnMutant(call, r) ==
  IF call.op = "suggest"
  THEN IF r.result # Null THEN Some(Val(r.result).suggestion) ELSE Null
  ELSE IF r.result # Null THEN r.result ELSE Some(NoContext)
FacadeReturn(call, r) ==
  IF call.op = "suggest"
  THEN IF r.result # Null THEN Some(Val(r.result).suggestion) ELSE Null
  ELSE IF r.result # Null THEN r.result ELSE Some(ExampleMap(call.fields))

\* executeAIProviders reached its next await or returned (a: Advance / Settle).
\* The executor closure of suggestValue / autofill passes name, value, fields
\* and the currentContext the call read when it began; the log keeps them.
ProceedMutant(call, cfg, a) ==
  IF a.rejected
  THEN [call EXCEPT !.pc = "done", !.pos = 0, !.rejected = TRUE]
  ELSE IF a.done
  THEN [call EXCEPT !.pc = "done", !.pos = 0, !.exec = Some(a.ret),
                    !.ret = FacadeReturn(call, a.ret)]
  ELSE [call EXCEPT !.pc = "exec", !.pos = a.pos,
                    !.tried = Append(@, [pos |-> a.pos, idx |-> a.idx,
                                         type |-> cfg.providers[a.idx].type,
                                         name |-> call.name, value |-> call.value,
                                         fields |-> call.fields, ctx |-> formContextRef,
                                         outcome |-> Pending])]
Proceed(call, cfg, a) ==
  IF a.rejected
  THEN [call EXCEPT !.pc = "done", !.pos = 0, !.rejected = TRUE]
  ELSE IF a.done
  THEN [call EXCEPT !.pc = "done", !.pos = 0, !.exec = Some(a.ret),
                    !.ret = FacadeReturn(call, a.ret)]
  ELSE [call EXCEPT !.pc = "exec", !.pos = a.pos,
                    !.tried = Append(@, [pos |-> a.pos, idx |-> a.idx,
                                         type |-> cfg.providers[a.idx].type,
                                         name |-> call.name, value |-> call.value,
                                         fields |-> call.fields, ctx |-> call.ctx,
                                         outcome |-> Pending])]

\* effectiveConfig.providers && effectiveConfig.executionOrder
Configured(cfg) == Has(cfg, "providers") /\ Has(cfg, "executionOrder")

\* The synchronous part of suggestValue / autofill: the enabled check, the read
\* of formContextRef.current, and executeAIProviders up to its first await.
Begin(call, isEnabled, cfg, context) ==
  IF ~isEnabled
  THEN [call EXCEPT !.pc = "done",
                    !.ret = IF call.op = "suggest" THEN Null
                            ELSE Some(DisabledMap(call.fields))]
  ELSE LET c1 == [call EXCEPT !.ctx = context]
       IN  IF Configured(cfg)
           THEN Proceed(c1, cfg, Advance(cfg, 1))
           ELSE [c1 EXCEPT !.pc = "legacy"]

SuggestCall(by, name, value) ==
  [IdleCall EXCEPT !.op = "suggest", !.by = by, !.name = name, !.value = value]

AutofillCall(by, fields) ==
  [IdleCall EXCEPT !.op = "autofill", !.by = by, !.fields = fields]

\* The running executor of call c settles with outcome o.
SettleWith(c, o) ==
  /\ calls[c].pc = "exec"
  /\ LET call == calls[c]
         n    == Len(call.tried)
         c1   == [call EXCEPT !.tried[n].outcome = o]
     IN  calls' = [calls EXCEPT ![c] = Proceed(c1, effectiveConfig,
                                               Settle(effectiveConfig, call.pos, o))]

\* the outcome of the given kind of the executor that call c awaits
OutcomeFor(c, kind) ==
  LET call == calls[c]
      t    == call.tried[Len(call.tried)]
  IN  Outcome(kind, call.op, t.idx, t.type, call.fields)

ProviderSettles(c, kind) ==
  /\ calls[c].pc = "exec"
  /\ SettleWith(c, OutcomeFor(c, kind))

\* legacySuggestValue / legacyAutofill: the ambient on-device model, then the
\* server at apiUrl, then null (suggest) or the Example_ map (autofill).
LegacyAnswer(call, source) ==
  IF call.op = "suggest"
  THEN IF source = "none" THEN Null ELSE Some("legacy_" \o source)
  ELSE IF source = "none" THEN Some(ExampleMap(call.fields))
       ELSE Some([f \in Range(call.fields) |-> "legacy_" \o source \o "_" \o f])

LegacySettles(c, source) ==
  /\ calls[c].pc = "legacy"
  /\ calls' = [calls EXCEPT ![c] = [@ EXCEPT !.pc = "done",
                                             !.ret = LegacyAnswer(calls[c], source)]]

-----------------------------------------------------------------------------
(* Idle values of the parts a specification leaves out *)

IdleCfg ==
  /\ props = NoContext /\ contextValue = NoContext
  /\ aiOptions = NoContext /\ mergedConfig = NoContext

IdleForm ==
  /\ formValues = NoContext /\ dirtyFields = {} /\ mounted = FALSE /\ blurs = {}
  /\ debounceTimers = NoContext /\ armed = {} /\ nextTimer = 1 /\ timerLog = <<>>

IdleAssistant ==
  /\ effectiveConfig = NoContext /\ enabled = TRUE
  /\ formContextRef = NoContext /\ calls = <<>>

IdleLoading ==
  /\ aiLoading = FALSE /\ aiDownloadProgress = Null /\ aiOps = <<>>
  /\ aiAvailability = Null /\ refreshes = <<>>
  /\ refreshAi = effectiveConfig

IdleRuns ==
  /\ sessions = <<>> /\ runs = <<>>

-----------------------------------------------------------------------------
(* SpecOrder: AIFormProvider renders with any provider list *)

MaxSortLen == 3

SortPriorities == {-1, 1}
SortTypes == {"chrome", "openai"}
ExplicitOrders == {<<>>, <<"openai", "chrome">>}

\* An explicit order is returned as it is, whatever the list: it is drawn with
\* the lists of at most one descriptor.
SortProps ==
  LET lists == SeqsUpTo(Descriptors(SortTypes, {FALSE}, SortPriorities), MaxSortLen)
  IN  {[providers |-> ps] : ps \in lists}
      \cup {[providers |-> ps] : ps \in {<<[type |-> "chrome", enabled |-> TRUE]>>,
                                         <<[type |-> "openai", enabled |-> TRUE, priority |-> 1],
                                           [type |-> "chrome", priority |-> 1]>>}}
      \cup {[providers |-> ps, executionOrder |-> o] :
              ps \in {t \in lists : Len(t) <= 1}, o \in ExplicitOrders}

InitOrder ==
  /\ props \in SortProps
  /\ contextValue = NoContext
  /\ aiOptions = NoContext /\ mergedConfig = NoContext
  /\ IdleAssistant /\ IdleForm /\ IdleLoading /\ IdleRuns

RenderProvider ==
  /\ props # NoContext
  /\ contextValue = NoContext
  /\ contextValue' = AIFormProvider(props)
  /\ UNCHANGED <<props, aiOptions, mergedConfig, effectiveConfig, enabled,
                 formContextRef, calls, formVars, loadVars, provVars>>

NextOrder == RenderProvider

SpecOrder == InitOrder /\ [][NextOrder]_vars

-----------------------------------------------------------------------------
(* SpecExec: one suggestValue or autofill call of an assistant, under any   *)
(* provider list, execution order and fallback flag                         *)

MaxProviders == 2
MaxOrder == 2

ExecTypes == {"chrome", "openai", DeclaredOnlyType}

ExecConfigs ==
  LET lists  == SeqsUpTo(Descriptors(ExecTypes, {FALSE}, {}), MaxProviders)
      orders == SeqsUpTo(ExecTypes, MaxOrder)
  IN  {[providers |-> ps, executionOrder |-> o, fallbackOnError |-> fb] :
         ps \in lists, o \in orders, fb \in BOOLEAN}

\* configurations without providers or without an order: the legacy path
LegacyConfigs ==
  {[fallbackOnError |-> TRUE],
   [providers |-> <<[type |-> "chrome"]>>, fallbackOnError |-> TRUE]}

\* configurations drawn with AI disabled
DisabledConfigs ==
  {[providers |-> <<[type |-> "chrome"]>>, executionOrder |-> <<"chrome">>,
    fallbackOnError |-> TRUE],
   [fallbackOnError |-> TRUE]}

ExecFieldLists == {<<"name">>, <<"name", "email">>}

InitExec ==
  /\ \/ effectiveConfig \in ExecConfigs \cup LegacyConfigs /\ enabled = TRUE
     \/ effectiveConfig \in DisabledConfigs /\ enabled = FALSE
  /\ formContextRef = [name |-> "A"]
  /\ calls = <<IdleCall>>
  /\ IdleCfg /\ IdleForm /\ IdleLoading /\ IdleRuns

\* ai.suggestValue(name, value)
SuggestValue(c, by, name, value) ==
  /\ calls[c].pc = "idle"
  /\ calls' = [calls EXCEPT ![c] = Begin(SuggestCall(by, name, value), enabled,
                                         effectiveConfig, formContextRef)]

\* ai.autofill(fields, options)
Autofill(c, by, fields) ==
  /\ calls[c].pc = "idle"
  /\ calls' = [calls EXCEPT ![c] = Begin(AutofillCall(by, fields), enabled,
                                         effectiveConfig, formContextRef)]

ExecFrame == UNCHANGED <<cfgVars, effectiveConfig, enabled, formContextRef, formVars,
                         loadVars, provVars>>

NextExec ==
  \/ SuggestValue(1, "caller", "name", "A") /\ ExecFrame
  \/ \E fields \in ExecFieldLists : Autofill(1, "caller", fields) /\ ExecFrame
  \/ \E kind \in OutcomeKinds : ProviderSettles(1, kind) /\ ExecFrame
  \/ \E source \in {"chrome", "server", "none"} : LegacySettles(1, source) /\ ExecFrame

SpecExec == InitExec /\ [][NextExec]_vars

-----------------------------------------------------------------------------
(* useForm: mergedConfig, and the options it hands to useAIAssistant *)

\* r.k as a value that may be undefined
Opt(r, k) == IF Has(r, k) THEN Some(r[k]) ELSE Null
\* a ?? b
Coalesce(a, b) == IF a # Null THEN a ELSE b
\* the property k when the value is defined, no property otherwise
Field(k, o) == IF o = Null THEN NoContext ELSE (k :> Val(o))

DefaultApiUrl == "http://localhost:3001"

\* useForm's mergedConfig: local ?? providerContext?.x ?? default
MergedConfigMutant(ai, ctx) ==
  [enabled |-> Val(Coalesce(Opt(ctx, "enabled"),
                   Coalesce(Opt(ai, "enabled"), Some(DefaultEnabled)))),
   apiUrl |-> Val(Coalesce(Opt(ai, "apiUrl"), Some(DefaultApiUrl))),
   debounceMs |-> Val(Coalesce(Opt(ai, "debounceMs"),
                      Coalesce(Opt(ctx, "debounceMs"), Some(DefaultDebounceMs)))),
   excludeFields |-> Val(Coalesce(Opt(ai, "excludeFields"),
                         Coalesce(Opt(ctx, "excludeFields"), Some(DefaultExcludeFields)))),
   autoCheckAvailability |-> Val(Coalesce(Opt(ai, "autoCheckAvailability"), Some(TRUE))),
   fallbackOnError |-> Val(Coalesce(Opt(ai, "fallbackOnError"),
                           Coalesce(Opt(ctx, "fallbackOnError"), Some(DefaultFallbackOnError))))]
  @@ Field("providers", Coalesce(Opt(ai, "providers"), Opt(ctx, "providers")))
  @@ Field("executionOrder", Coalesce(Opt(ai, "executionOrder"), Opt(ctx, "executionOrder")))
  @@ Field("formContext", Coalesce(Opt(ai, "formContext"), Opt(ctx, "formContext")))
MergedConfig(ai, ctx) ==
  [enabled |-> Val(Coalesce(Opt(ai, "enabled"),
                   Coalesce(Opt(ctx, "enabled"), Some(DefaultEnabled)))),
   apiUrl |-> Val(Coalesce(Opt(ai, "apiUrl"), Some(DefaultApiUrl))),
   debounceMs |-> Val(Coalesce(Opt(ai, "debounceMs"),
                      Coalesce(Opt(ctx, "debounceMs"), Some(DefaultDebounceMs)))),
   excludeFields |-> Val(Coalesce(Opt(ai, "excludeFields"),
                         Coalesce(Opt(ctx, "excludeFields"), Some(DefaultExcludeFields)))),
   autoCheckAvailability |-> Val(Coalesce(Opt(ai, "autoCheckAvailability"), Some(TRUE))),
   fallbackOnError |-> Val(Coalesce(Opt(ai, "fallbackOnError"),
                           Coalesce(Opt(ctx, "fallbackOnError"), Some(DefaultFallbackOnError))))]
  @@ Field("providers", Coalesce(Opt(ai, "providers"), Opt(ctx, "providers")))
  @@ Field("executionOrder", Coalesce(Opt(ai, "executionOrder"), Opt(ctx, "executionOrder")))
  @@ Field("formContext", Coalesce(Opt(ai, "formContext"), Opt(ctx, "formContext")))

\* useAIAssistant's effectiveConfig, from the options useForm passes (providers,
\* executionOrder and fallbackOnError of mergedConfig) and the ambient context
EffectiveConfig(opts, ctx) ==
  [fallbackOnError |-> Val(Coalesce(Opt(opts, "fallbackOnError"),
                           Coalesce(Opt(ctx, "fallbackOnError"), Some(TRUE))))]
  @@ Field("providers", Coalesce(Opt(opts, "providers"), Opt(ctx, "providers")))
  @@ Field("executionOrder", Coalesce(Opt(opts, "executionOrder"), Opt(ctx, "executionOrder")))

\* useForm's mergedFormContext: the watched form values merged with the
\* configured formContext (a string goes under _context, an object is spread)
MergedFormContext(values, cfg) ==
  IF ~Has(cfg, "formContext") THEN values
  ELSE IF cfg.formContext.t = "string"
       THEN ("_context" :> cfg.formContext.s) @@ values
       ELSE cfg.formContext.o @@ values

-----------------------------------------------------------------------------
(* SpecConfig: a form with any `ai` options, with or without an ambient      *)
(* AIFormProvider, renders and makes one suggestValue or autofill call       *)

WithOptional(base, k, vals) == base \cup {r @@ (k :> v) : r \in base, v \in vals}

AmbientProps ==
  LET lists == {<<[type |-> "chrome", priority |-> 10], [type |-> "openai", priority |-> 5]>>,
                <<[type |-> "openai"]>>}
      r0 == {[providers |-> ps] : ps \in lists}
      r1 == WithOptional(r0, "executionOrder", {<<>>, <<"openai", "chrome">>})
      r2 == WithOptional(r1, "fallbackOnError", {FALSE})
      r3 == WithOptional(r2, "enabled", {FALSE})
      r4 == WithOptional(r3, "excludeFields", {{"password"}})
      r5 == WithOptional({[providers |-> <<[type |-> "openai"]>>]}, "debounceMs", {500})
  IN  r4 \cup WithOptional(r5, "formContext", {StringValue("ambient")})

LocalOptions ==
  LET r0 == {NoContext}
      r1 == WithOptional(r0, "providers",
                         {<<[type |-> "chrome", priority |-> 10],
                            [type |-> "openai", priority |-> 5]>>,
                          <<[type |-> "custom", priority |-> 1],
                            [type |-> "openai", priority |-> 5]>>})
      r2 == WithOptional(r1, "executionOrder", {<<"openai">>})
      r3 == WithOptional(r2, "fallbackOnError", {TRUE, FALSE})
      r4 == WithOptional(r3, "enabled", {TRUE, FALSE})
      r5 == WithOptional(r0, "debounceMs", {300})
      r6 == WithOptional(r5, "excludeFields", {{"email"}})
  IN  r4 \cup WithOptional(r6, "formContext", {StringValue("local"), ObjectValue([role |-> "engineer"])})

InitConfig ==
  /\ props \in AmbientProps \cup {NoContext}
  /\ aiOptions \in LocalOptions
  /\ contextValue = NoContext /\ mergedConfig = NoContext
  /\ effectiveConfig = NoContext /\ enabled = TRUE
  /\ formContextRef = NoContext
  /\ calls = <<IdleCall>>
  /\ formValues = [name |-> "A"] /\ dirtyFields = {} /\ mounted = FALSE /\ blurs = {}
  /\ debounceTimers = NoContext /\ armed = {} /\ nextTimer = 1 /\ timerLog = <<>>
  /\ IdleLoading /\ IdleRuns

\* useForm renders (under the AIFormProvider, when there is one): mergedConfig,
\* then useAIAssistant with its options
RenderForm ==
  /\ mergedConfig = NoContext
  /\ props = NoContext \/ contextValue # NoContext
  /\ LET m == MergedConfig(aiOptions, contextValue)
     IN  /\ mergedConfig' = m
         /\ enabled' = m.enabled
         /\ effectiveConfig' = EffectiveConfig(m, contextValue)
         /\ formContextRef' = MergedFormContext(formValues, m)
         /\ refreshAi' = effectiveConfig'
  /\ UNCHANGED <<props, contextValue, aiOptions, calls, formVars, provVars,
                 aiLoading, aiDownloadProgress, aiOps, aiAvailability, refreshes>>

ConfigFrame == UNCHANGED <<cfgVars, effectiveConfig, enabled, formContextRef, formVars,
                           loadVars, provVars>>

NextConfig ==
  \/ RenderProvider
  \/ RenderForm
  \/ mergedConfig # NoContext /\ SuggestValue(1, "caller", "name", "A") /\ ConfigFrame
  \/ mergedConfig # NoContext /\ Autofill(1, "caller", <<"name", "email">>) /\ ConfigFrame
  \/ \E kind \in OutcomeKinds : ProviderSettles(1, kind) /\ ConfigFrame
  \/ \E source \in {"chrome", "server", "none"} : LegacySettles(1, source) /\ ConfigFrame

SpecConfig == InitConfig /\ [][NextConfig]_vars

\* C5: when a provider list is in effect for the form (its own or the ambient
\* one) and no explicit executionOrder is given at any level, every suggestValue
\* or autofill call tries the providers of that list in its priority-derived
\* order (and so does not go down the legacy path that ignores the list).
C5_EffectiveProvidersInDerivedOrder ==
  \A c \in DOMAIN calls :
    (/\ calls[c].pc # "idle" /\ enabled
     /\ Has(mergedConfig, "providers")
     /\ ~Has(aiOptions, "executionOrder")
     /\ ~(Has(props, "executionOrder") /\ props.executionOrder # <<>>))
    => /\ calls[c].pc # "legacy"
       /\ Has(effectiveConfig, "executionOrder")
       /\ effectiveConfig.executionOrder =
            TypesOf(StableSort(SelectSeq(effectiveConfig.providers, IsEnabled)))

-----------------------------------------------------------------------------
(* useForm: the form integration layer *)

\* `const currentContext = formContextRef.current`: the facade reads the cell
\* when the call runs, not the formContext of the closure that scheduled it.
ReadContextMutant(cell, closure) == closure
ReadContext(cell, closure) == cell

\* value && value.trim().length > 0
Blank == {"", " "}
HasText(value) == value \notin Blank

\* the timer a setTimeout call has just scheduled
NewTimer(f, cell) ==
  [field |-> f, state |-> "armed", superseded |-> FALSE, armCtx |-> cell,
   fireCtx |-> NoContext, called |-> FALSE, call |-> 0]

\* clearTimeout(id): a timer that has fired or was cleared is left as it is
ClearTimeoutMutant(log, live, id) == log
ClearTimeout(log, live, id) ==
  [t \in DOMAIN log |-> IF t = id /\ t \in live
                        THEN [log[t] EXCEPT !.state = "cleared"] ELSE log[t]]

\* Object.keys(form.getValues()): the registered fields, in registration order
RegistrationOrder == <<"name", "email", "password">>
FieldOrder(values) == SelectSeq(RegistrationOrder, LAMBDA f : f \in DOMAIN values)

\* fields || Object.keys(currentValues), then the excludeFields filter
FieldsToFillMutant(values, fields, exclude) ==
  IF fields = Null THEN FieldOrder(values) ELSE Val(fields)
FieldsToFill(values, fields, exclude) ==
  LET target == IF fields = Null THEN FieldOrder(values) ELSE Val(fields)
  IN  SelectSeq(target, LAMBDA f : f \notin exclude)

\* for (const [name, value] of Object.entries(autofillData))
\*   if (fieldsToFill.some(f => String(f) === name)) form.setValue(name, value)
ApplyAutofillMutant(values, data, target) ==
  [f \in DOMAIN values |-> IF f \in DOMAIN data THEN data[f] ELSE values[f]]
ApplyAutofill(values, data, target) ==
  [f \in DOMAIN values |->
     IF f \in DOMAIN data /\ f \in Range(target) THEN data[f] ELSE values[f]]

\* the fields those setValue calls mark ({shouldDirty: true, shouldTouch: true})
MarkedFields(data, target) == DOMAIN data \cap Range(target)

\* What the continuation of an invocation writes to the form once its facade
\* call has returned `ret`: aiAutofill applies the map; aiSuggest returns the
\* suggestion to its caller and the blur timer logs it.
SetValuesMutant(values, call, ret) ==
  IF call.by = "aiAutofill" /\ ret # Null THEN ApplyAutofill(values, Val(ret), call.fields)
  ELSE IF ret # Null THEN [values EXCEPT ![call.name] = Val(ret)] ELSE values
SetValues(values, call, ret) ==
  IF call.by = "aiAutofill" /\ ret # Null THEN ApplyAutofill(values, Val(ret), call.fields)
  ELSE values

-----------------------------------------------------------------------------
(* SpecForm: one mounted form with the fields name and password, password    *)
(* excluded, two configured providers; the user types, blurs, asks for       *)
(* suggestions and autofill, and the form unmounts.  The host form's         *)
(* setValue returns normally here; SpecLoading has it throw as well.         *)

MaxTimers == 2
MaxCalls == 1

\* what the user types into the name field, keystroke by keystroke
TypedTexts == <<"", "A">>

SecretValues == {"hunter2"}

FormConfig ==
  MergedConfig([excludeFields |-> {"password"},
                providers |-> <<[type |-> "chrome", priority |-> 10],
                                [type |-> "openai", priority |-> 5]>>,
                executionOrder |-> <<"chrome", "openai">>],
               NoContext)

InitForm ==
  /\ props = NoContext /\ contextValue = NoContext
  /\ aiOptions = NoContext
  /\ mergedConfig = FormConfig
  /\ effectiveConfig = EffectiveConfig(FormConfig, NoContext)
  /\ enabled = FormConfig.enabled
  /\ formValues \in [{"name", "password"} -> {TypedTexts[1]} \cup SecretValues]
  /\ formValues["name"] = TypedTexts[1] /\ formValues["password"] \in SecretValues
  /\ dirtyFields = {}
  /\ formContextRef = MergedFormContext(formValues, FormConfig)
  /\ calls = <<>>
  /\ mounted = TRUE
  /\ blurs = [f \in {"name", "password"} |-> 0]
  /\ debounceTimers = [f \in {"name", "password"} |-> 0]
  /\ armed = {}
  /\ nextTimer = 1
  /\ timerLog = <<>>
  /\ IdleLoading /\ IdleRuns

FormCfgFrame == UNCHANGED <<cfgVars, effectiveConfig, enabled, provVars>>

\* the user types one more character into a field: the host form's values change
ChangeValue(f) ==
  /\ mounted
  /\ \E k \in 1..(Len(TypedTexts) - 1) :
       /\ formValues[f] = TypedTexts[k]
       /\ formValues' = [formValues EXCEPT ![f] = TypedTexts[k + 1]]
  /\ dirtyFields' = dirtyFields \cup {f}
  /\ UNCHANGED <<formContextRef, calls, mounted, blurs, debounceTimers, armed,
                 nextTimer, timerLog, loadVars>>
  /\ FormCfgFrame

\* the form re-renders with the watched values and useAIAssistant's effect
\* stores the new formContext in the cell
UpdateContextRef ==
  /\ mounted
  /\ formContextRef # MergedFormContext(formValues, mergedConfig)
  /\ formContextRef' = MergedFormContext(formValues, mergedConfig)
  /\ UNCHANGED <<calls, formVars, loadVars>>
  /\ FormCfgFrame

\* registerWithAI's onBlur is called: it awaits baseRegister.onBlur. Fields in
\* excludeFields (and every field when AI is disabled) keep the base handler.
Blur(f) ==
  /\ mounted
  /\ mergedConfig.enabled /\ f \notin mergedConfig.excludeFields
  /\ nextTimer + blurs[f] <= MaxTimers
  /\ blurs' = [blurs EXCEPT ![f] = @ + 1]
  /\ timerLog' = [t \in DOMAIN timerLog |->
                    IF t \in armed /\ timerLog[t].field = f
                    THEN [timerLog[t] EXCEPT !.superseded = TRUE] ELSE timerLog[t]]
  /\ UNCHANGED <<formContextRef, calls, formValues, dirtyFields, mounted,
                 debounceTimers, armed, nextTimer, loadVars>>
  /\ FormCfgFrame

\* baseRegister.onBlur has settled: clear the field's timer, set a new one
BlurResumes(f) ==
  /\ blurs[f] > 0
  /\ blurs' = [blurs EXCEPT ![f] = @ - 1]
  /\ timerLog' = Append(ClearTimeout(timerLog, armed, debounceTimers[f]),
                        NewTimer(f, formContextRef))
  /\ armed' = (armed \ {debounceTimers[f]}) \cup {nextTimer}
  /\ debounceTimers' = [debounceTimers EXCEPT ![f] = nextTimer]
  /\ nextTimer' = nextTimer + 1
  /\ UNCHANGED <<formContextRef, calls, formValues, dirtyFields, mounted, loadVars>>
  /\ FormCfgFrame

\* a debounce timer fires: with text in the field it calls ai.suggestValue
TimerFires(t) ==
  /\ t \in armed
  /\ armed' = armed \ {t}
  /\ LET f     == timerLog[t].field
         value == formValues[f]
     IN  IF HasText(value)
         THEN /\ Len(calls) < MaxCalls
              /\ calls' = Append(calls,
                   Begin([SuggestCall("timer", f, value) EXCEPT !.afterUnmount = ~mounted],
                         enabled, effectiveConfig,
                         ReadContext(formContextRef, timerLog[t].armCtx)))
              /\ timerLog' = [timerLog EXCEPT ![t] =
                   [@ EXCEPT !.state = "fired", !.called = TRUE,
                             !.fireCtx = formContextRef, !.call = Len(calls) + 1]]
         ELSE /\ calls' = calls
              /\ timerLog' = [timerLog EXCEPT ![t] =
                   [@ EXCEPT !.state = "fired", !.fireCtx = formContextRef]]
  /\ UNCHANGED <<formContextRef, formValues, dirtyFields, mounted, blurs,
                 debounceTimers, nextTimer, loadVars>>
  /\ FormCfgFrame

\* the cleanup of the mount effect: clear every timer of the map, empty the map
Unmount ==
  /\ mounted
  /\ mounted' = FALSE
  /\ LET ids == {debounceTimers[f] : f \in DOMAIN debounceTimers}
     IN  /\ timerLog' = [t \in DOMAIN timerLog |->
                           IF t \in ids /\ t \in armed
                           THEN [timerLog[t] EXCEPT !.state = "cleared"] ELSE timerLog[t]]
         /\ armed' = armed \ ids
  /\ debounceTimers' = [f \in DOMAIN debounceTimers |-> 0]
  /\ UNCHANGED <<formContextRef, calls, formValues, dirtyFields, blurs, nextTimer,
                 loadVars>>
  /\ FormCfgFrame

\* One invocation of aiSuggest or aiAutofill, as the log keeps it: the facade
\* call it awaits (0: none), whether it called setAiLoading(true), how it ended
\* and what aiLoading / aiDownloadProgress were when it ended.
RunningOp(op, c) ==
  [op |-> op, call |-> c, state |-> "running", setLoading |-> TRUE,
   endLoading |-> Null, endProgress |-> Null]

\* aiAutofill(fields): the log keeps the argument (Null: undefined)
Requested(o, fields) == o @@ [requested |-> fields]

\* `if (!aiEnabled) return`: the invocation ends before it touches any state
SkippedOp(op) ==
  [op |-> op, call |-> 0, state |-> "resolved", setLoading |-> FALSE,
   endLoading |-> Null, endProgress |-> Null]

\* the `finally` block of aiAutofill (setAiLoading(false) and
\* setAiDownloadProgress(null)) and of aiSuggest (setAiLoading(false)): the
\* values of aiLoading and aiDownloadProgress after it
FinallyLoadingMutant(op, loading, thrown) == IF thrown THEN loading ELSE FALSE
FinallyLoadingSuggestMutant(op, loading, thrown) == IF op = "aiSuggest" THEN loading ELSE FALSE
FinallyLoading(op, loading, thrown) == FALSE
FinallyProgress(op, progress) == IF op = "aiAutofill" THEN Null ELSE progress

\* how the promise of the invocation settles: aiAutofill rethrows what its try
\* block threw, aiSuggest catches it and returns null
EndState(op, thrown) == IF thrown /\ op = "aiAutofill" THEN "rejected" ELSE "resolved"

EndedOp(o, thrown, loading, progress) ==
  [o EXCEPT !.state = EndState(o.op, thrown),
            !.endLoading = Some(loading), !.endProgress = Some(progress)]

\* the invocation that awaits facade call c (0: none)
OpOf(ops, c) ==
  LET S == {i \in DOMAIN ops : ops[i].call = c /\ ops[i].state = "running"}
  IN  IF S = {} THEN 0 ELSE Min(S)

\* aiSuggest(fieldName)
AiSuggest(f) ==
  /\ mounted
  /\ IF ~mergedConfig.enabled
     THEN /\ aiOps' = Append(aiOps, SkippedOp("aiSuggest"))
          /\ UNCHANGED <<calls, aiLoading, aiDownloadProgress>>
     ELSE LET call == Begin(SuggestCall("aiSuggest", f, formValues[f]), enabled,
                            effectiveConfig, ReadContext(formContextRef, formContextRef))
              o    == RunningOp("aiSuggest", Len(calls) + 1)
          IN  /\ calls' = Append(calls, call)
              /\ aiDownloadProgress' = aiDownloadProgress
              /\ IF call.pc = "done"
                 THEN /\ aiLoading' = FinallyLoading("aiSuggest", TRUE, FALSE)
                      /\ aiOps' = Append(aiOps, EndedOp(o, FALSE, aiLoading', aiDownloadProgress'))
                 ELSE /\ aiLoading' = TRUE
                      /\ aiOps' = Append(aiOps, o)
  /\ UNCHANGED <<formContextRef, formVars, availVars>>
  /\ FormCfgFrame

\* const { enabled: aiEnabled, ... } = mergedConfig
AiEnabledMutant(cfg) == TRUE
AiEnabled(cfg) == cfg.enabled

\* aiAutofill(fields): up to the await of ai.autofill, or to the early return
\* when no field is left to fill (the finally block runs then, too)
AiAutofill(fields) ==
  /\ mounted
  /\ LET fieldsToFill == FieldsToFill(formValues, fields, mergedConfig.excludeFields)
     IN  IF ~AiEnabled(mergedConfig)
         THEN /\ aiOps' = Append(aiOps, SkippedOp("aiAutofill"))
              /\ UNCHANGED <<calls, aiLoading, aiDownloadProgress>>
         ELSE IF Len(fieldsToFill) = 0
         THEN /\ aiLoading' = FinallyLoading("aiAutofill", TRUE, FALSE)
              /\ aiDownloadProgress' = FinallyProgress("aiAutofill", Null)
              /\ aiOps' = Append(aiOps,
                   EndedOp(Requested(RunningOp("aiAutofill", 0), fields), FALSE,
                           aiLoading', aiDownloadProgress'))
              /\ calls' = calls
         ELSE /\ aiLoading' = TRUE
              /\ aiDownloadProgress' = Null
              /\ calls' = Append(calls,
                   Begin(AutofillCall("aiAutofill", fieldsToFill), enabled,
                         effectiveConfig, ReadContext(formContextRef, formContextRef)))
              /\ aiOps' = Append(aiOps, Requested(RunningOp("aiAutofill", Len(calls) + 1),
                                                  fields))
  /\ UNCHANGED <<formContextRef, formVars, availVars>>
  /\ FormCfgFrame

\* onDownloadProgress: (progress) => setAiDownloadProgress(progress), called by
\* the on-device executor with e.loaded * 100 while the model downloads
ProgressOf(loaded) == loaded * 100

\* the React state of the hook, and what the callback sets of it
HookState ==
  [aiLoading |-> aiLoading, aiDownloadProgress |-> aiDownloadProgress,
   aiAvailability |-> aiAvailability]

OnDownloadProgressMutant(state, progress) ==
  [state EXCEPT !.aiDownloadProgress = Some(progress),
                !.aiAvailability =
                   Some([available |-> TRUE,
                         status |-> IF progress = 100 THEN "readily" ELSE "downloading",
                         needsDownload |-> FALSE])]
OnDownloadProgress(state, progress) ==
  [state EXCEPT !.aiDownloadProgress = Some(progress)]

DownloadProgress(c, loaded) ==
  /\ calls[c].pc = "exec" /\ calls[c].by = "aiAutofill"
  /\ calls[c].tried[Len(calls[c].tried)].type = "chrome"
  /\ aiDownloadProgress # Some(ProgressOf(loaded))
  /\ LET state == OnDownloadProgress(HookState, ProgressOf(loaded))
     IN  /\ aiLoading' = state.aiLoading
         /\ aiDownloadProgress' = state.aiDownloadProgress
         /\ aiAvailability' = state.aiAvailability
  /\ UNCHANGED <<formContextRef, calls, formVars, aiOps, refreshes, refreshAi>>
  /\ FormCfgFrame

\* The executors built by createAIProvider catch every error of their own and
\* return null: inside the form an executor answers with a value or with null.
FormOutcomeKinds == {"value", "null"}

\* A provider call of the form settles.  When that ends the facade call of an
\* aiAutofill, the returned values are applied to the target fields with
\* form.setValue, a call into the host form library that may throw
\* (`throws`); then, and when it ends the facade call of an aiSuggest, the
\* invocation's finally block runs and its promise settles.
FormSettleWith(c, o, throws) ==
  /\ SettleWith(c, o)
  /\ LET ended   == calls'[c].pc = "done"
         i       == OpOf(aiOps, c)
         applies == ended /\ calls[c].by = "aiAutofill" /\ calls'[c].ret # Null
     IN  /\ throws => applies
         /\ formValues' =
              IF ended /\ ~throws
              THEN SetValues(formValues, calls[c], calls'[c].ret)
              ELSE formValues
         /\ dirtyFields' =
              IF applies /\ ~throws
              THEN dirtyFields \cup MarkedFields(Val(calls'[c].ret), calls[c].fields)
              ELSE dirtyFields
         /\ IF ended /\ i # 0
            THEN /\ aiLoading' = FinallyLoading(aiOps[i].op, aiLoading, throws)
                 /\ aiDownloadProgress' = FinallyProgress(aiOps[i].op, aiDownloadProgress)
                 /\ aiOps' = [aiOps EXCEPT ![i] =
                      EndedOp(@, throws, aiLoading', aiDownloadProgress')]
            ELSE UNCHANGED <<aiLoading, aiDownloadProgress, aiOps>>
  /\ UNCHANGED <<formContextRef, mounted, blurs, debounceTimers, armed, nextTimer,
                 timerLog, availVars>>
  /\ FormCfgFrame

FormProviderSettles(c, kind, throws) ==
  /\ calls[c].pc = "exec"
  /\ FormSettleWith(c, OutcomeFor(c, kind), throws)

\* the invocations the model lets a form start
CanStart(max) == Len(aiOps) < max /\ Len(calls) < max

NextForm ==
  \/ \E f \in DOMAIN formValues : ChangeValue(f)
  \/ UpdateContextRef
  \/ \E f \in DOMAIN formValues : Blur(f)
  \/ \E f \in DOMAIN formValues : BlurResumes(f)
  \/ \E t \in armed : TimerFires(t)
  \/ Unmount
  \/ \E f \in DOMAIN formValues : CanStart(MaxCalls) /\ AiSuggest(f)
  \/ \E fields \in {Null, Some(<<"password">>)} : CanStart(MaxCalls) /\ AiAutofill(fields)
  \/ \E c \in DOMAIN calls : \E kind \in FormOutcomeKinds :
       FormProviderSettles(c, kind, FALSE)

SpecForm == InitForm /\ [][NextForm]_vars

-----------------------------------------------------------------------------
(* SpecLoading: the same form, where aiSuggest and aiAutofill invocations    *)
(* overlap; SpecLoadingLive adds that every provider call settles            *)

MaxOverlap == 2

NextLoading ==
  \/ \E f \in DOMAIN formValues : CanStart(MaxOverlap) /\ AiSuggest(f)
  \/ \E fields \in {Null, Some(<<"password">>)} : CanStart(MaxOverlap) /\ AiAutofill(fields)
  \/ \E c \in DOMAIN calls : \E kind \in FormOutcomeKinds : \E throws \in BOOLEAN :
       FormProviderSettles(c, kind, throws)
  \/ \E c \in DOMAIN calls : \E loaded \in {0, 1} : DownloadProgress(c, loaded)

SpecLoading == InitForm /\ [][NextLoading]_vars

\* the provider call that facade call c awaits resolves or rejects
CallSettles(c) ==
  /\ c \in DOMAIN calls
  /\ \E kind \in FormOutcomeKinds : \E throws \in BOOLEAN :
       FormProviderSettles(c, kind, throws)

SpecLoadingLive ==
  /\ InitForm
  /\ [][NextLoading]_vars
  /\ \A c \in 1..MaxOverlap : WF_vars(CallSettles(c))

-----------------------------------------------------------------------------
(* SpecAutofill: a form with the fields name, email and password, password   *)
(* excluded; aiAutofill is asked for all fields or for some, and the         *)
(* provider answers with any map over the three field names                  *)

\* the `fields` arguments of aiAutofill (Null: undefined)
RequestedFields == {Null, Some(<<"name">>), Some(<<"email", "password">>)}

\* the AutofillData a provider may return
AutofillAnswers ==
  {[f \in K |-> "filled_" \o f] : K \in SUBSET {"name", "email", "password"}}

InitAutofill ==
  /\ props = NoContext /\ contextValue = NoContext
  /\ aiOptions = NoContext
  /\ mergedConfig = FormConfig
  /\ effectiveConfig = EffectiveConfig(FormConfig, NoContext)
  /\ enabled = FormConfig.enabled
  /\ formValues = [name |-> "", email |-> "a@b.c", password |-> "hunter2"]
  /\ dirtyFields \in SUBSET {"email"}
  /\ formContextRef = MergedFormContext(formValues, FormConfig)
  /\ calls = <<>>
  /\ mounted = TRUE
  /\ blurs = [f \in DOMAIN formValues |-> 0]
  /\ debounceTimers = [f \in DOMAIN formValues |-> 0]
  /\ armed = {}
  /\ nextTimer = 1
  /\ timerLog = <<>>
  /\ IdleLoading /\ IdleRuns

NextAutofill ==
  \/ \E fields \in RequestedFields : CanStart(MaxCalls) /\ AiAutofill(fields)
  \/ \E c \in DOMAIN calls : \E data \in AutofillAnswers : \E throws \in BOOLEAN :
       FormSettleWith(c, [kind |-> "value", val |-> Some(data)], throws)
  \/ \E c \in DOMAIN calls : FormProviderSettles(c, "null", FALSE)

SpecAutofill == InitAutofill /\ [][NextAutofill]_vars

-----------------------------------------------------------------------------
(* SpecSuggest: the form of SpecForm where the user types, blurs and calls   *)
(* aiSuggest, and a provider may answer, answer null or throw                *)

NextSuggest ==
  \/ \E f \in DOMAIN formValues : ChangeValue(f)
  \/ UpdateContextRef
  \/ \E f \in DOMAIN formValues : Blur(f)
  \/ \E f \in DOMAIN formValues : BlurResumes(f)
  \/ \E t \in armed : TimerFires(t)
  \/ \E f \in DOMAIN formValues : CanStart(MaxCalls) /\ AiSuggest(f)
  \/ \E c \in DOMAIN calls : \E kind \in OutcomeKinds :
       FormProviderSettles(c, kind, FALSE)

SpecSuggest == InitForm /\ [][NextSuggest]_vars

-----------------------------------------------------------------------------
(* The provider executors: on-device sessions, availability, server replies *)

\* A text (a model answer, a JSON document) is a sequence of tokens.

\* the autofill maps a provider can be sent
JsonObjects == {[name |-> "Alice"], [name |-> "Alice", email |-> "a@b.c"]}

\* JSON.stringify of an autofill map
Stringify(m) ==
  IF DOMAIN m = {"name"}
  THEN <<"{", "name:" \o m.name, "}">>
  ELSE <<"{", "name:" \o m.name, ",", "email:" \o m.email, "}">>

\* JSON.parse: the object the text encodes, Null when it throws
JsonParse(text) ==
  LET S == {m \in JsonObjects : Stringify(m) = text}
  IN  IF S = {} THEN Null ELSE Some(CHOOSE m \in S : TRUE)

\* result.match(/\{[\s\S]*\}/): from the first "{" to the last "}"
JsonMatch(text) ==
  LET opens  == {i \in 1..Len(text) : text[i] = "{"}
      closes == {i \in 1..Len(text) : text[i] = "}"}
      first  == Min(opens)
      last   == CHOOSE i \in closes : \A k \in closes : k <= i
  IN  IF opens = {} \/ {i \in closes : i > first} = {} THEN Null
      ELSE Some(SubSeq(text, first, last))

\* result.trim().replace(/^["']|["']$/g, '')
Cleaned(text) ==
  LET quotes == {"'", "\""}
      t1 == IF text # <<>> /\ Head(text) \in quotes THEN Tail(text) ELSE text
  IN  IF t1 # <<>> /\ t1[Len(t1)] \in quotes THEN SubSeq(t1, 1, Len(t1) - 1) ELSE t1

\* what session.prompt resolves with
PromptTexts ==
  {<<"Sure:", "{", "name:Alice", "}">>, <<"'", "Alice", "'">>, <<"{", "oops", "}">>}

\* ChromeAIProvider.suggestValue after session.destroy()
ChromeSuggestion(text) == Some([suggestion |-> Cleaned(text), provider |-> "chrome"])

\* ChromeAIProvider.autofill after session.destroy(): the JSON object of the
\* answer; null without a match, and null from the catch when JSON.parse throws
ChromeAutofillData(text) ==
  LET m == JsonMatch(text)
  IN  IF m = Null THEN Null ELSE JsonParse(Val(m))

UnavailableStatus == [available |-> FALSE, status |-> "unavailable", needsDownload |-> FALSE]
ErrorStatus       == [available |-> FALSE, status |-> "error", needsDownload |-> FALSE]

\* what LanguageModel.availability() resolves with
AvailabilityAnswers == {"readily", "downloadable", "downloading", "unavailable"}

\* ChromeAIProvider.checkAvailability, from the capability's answer
ChromeAvailability(availability) ==
  [available     |-> availability # "unavailable",
   status        |-> availability,
   needsDownload |-> availability = "downloadable"]

\* legacyCheckAvailability, from the answer of window.ai.languageModel
LegacyAvailability(availability) ==
  [available     |-> availability # "unavailable",
   status        |-> availability,
   needsDownload |-> availability = "downloadable"]

\* OpenAIProvider.checkAvailability
OpenAIAvailability(config) ==
  LET key == Has(config, "apiKey") /\ config.apiKey # ""
  IN  [available |-> key, status |-> IF key THEN "ready" ELSE "missing-api-key",
       needsDownload |-> FALSE]

\* CustomServerProvider.checkAvailability, from response.ok of GET /health
CustomAvailability(ok) ==
  [available |-> ok, status |-> IF ok THEN "ready" ELSE "unavailable",
   needsDownload |-> FALSE]

\* effectiveConfig.providers.find(p => p.type === firstProviderType): the
\* index of the first match, 0 when there is none
FindByType(providers, t) ==
  LET S == {j \in 1..Len(providers) : providers[j].type = t}
  IN  IF S = {} THEN 0 ELSE Min(S)

\* the provider the assistant's checkAvailability asks (0: the legacy check)
FirstProvider(cfg) ==
  IF Has(cfg, "providers") /\ Has(cfg, "executionOrder") /\ Len(cfg.executionOrder) > 0
  THEN FindByType(cfg.providers, cfg.executionOrder[1])
  ELSE 0

\* the bodies a server sends for POST /api/autofill: autofillData as a native
\* object, as a JSON-encoded string, or not at all
ServerBodies ==
  {[autofillData |-> ObjectValue(m)] : m \in JsonObjects}
  \cup {[autofillData |-> StringValue(Stringify(m))] : m \in JsonObjects}
  \cup {NoContext}

\* CustomServerProvider.autofill: `data.autofillData || null`
CustomAutofillData(data) ==
  IF Has(data, "autofillData") /\ data.autofillData # StringValue(<<>>)
  THEN Some(data.autofillData) ELSE Null

\* legacyAutofill's server branch: a string is parsed, an object is returned;
\* Null stands for falling through to the Example_ map
LegacyServerData(data) ==
  IF ~Has(data, "autofillData") THEN Null
  ELSE IF data.autofillData.t = "string"
       THEN LET m == JsonParse(data.autofillData.s)
            IN  IF m = Null THEN Null ELSE Some(ObjectValue(Val(m)))
       ELSE Some(data.autofillData)

-----------------------------------------------------------------------------
(* SpecProvider: runs of the on-device and custom-server executors and of    *)
(* the availability checks, one after the other (they share no state)        *)

MaxRuns == 2

\* One run: where it stands (pc), whether the capability object it needs is
\* defined, the session it created (0: none), what the capability or the
\* server answered, and what it returned (Null: null) or that it rejected.
NewRun(kind, present) ==
  [kind |-> kind, pc |-> "start", present |-> present, via |-> "", session |-> 0,
   answer |-> "", text |-> <<>>, data |-> NoContext, ret |-> Null, rejected |-> FALSE]

Return(run, ret) == [run EXCEPT !.pc = "done", !.ret = ret]

\* kinds of run that open an on-device session
SessionKinds == {"chrome.suggestValue", "chrome.autofill", "legacyUseChromeAI"}
ServerKinds == {"custom.autofill", "legacyAutofill.server"}
RunKinds == SessionKinds \cup ServerKinds \cup {"chrome.checkAvailability", "checkAvailability"}

\* ChromeAIProvider.checkAvailability / legacyCheckAvailability up to the
\* await of availability()
BeginAvailability(run, via) ==
  IF ~run.present THEN Return(run, Some(UnavailableStatus))
  ELSE [run EXCEPT !.pc = "availability", !.via = via]

\* the assistant's checkAvailability up to its first await
BeginCheckAvailability(run, cfg) ==
  LET j == FirstProvider(cfg)
  IN  IF j = 0 THEN BeginAvailability(run, "legacy")
      ELSE IF ~CanCreate(cfg.providers[j])
           THEN [run EXCEPT !.pc = "done", !.rejected = TRUE]
      ELSE IF cfg.providers[j].type = "chrome" THEN BeginAvailability(run, "chrome")
      ELSE IF cfg.providers[j].type = "openai"
           THEN Return(run, Some(OpenAIAvailability(cfg.providers[j])))
      ELSE [run EXCEPT !.pc = "health", !.via = "custom"]

\* the synchronous part of a run
BeginRun(run, cfg) ==
  IF run.kind \in SessionKinds
  THEN IF ~run.present THEN Return(run, Null) ELSE [run EXCEPT !.pc = "create"]
  ELSE IF run.kind \in ServerKinds THEN [run EXCEPT !.pc = "fetch"]
  ELSE IF run.kind = "chrome.checkAvailability" THEN BeginAvailability(run, "chrome")
  ELSE BeginCheckAvailability(run, cfg)

StartRun(kind, present) ==
  /\ Len(runs) < MaxRuns
  /\ \A r \in DOMAIN runs : runs[r].pc = "done"
  /\ runs' = Append(runs, BeginRun(NewRun(kind, present), effectiveConfig))
  /\ UNCHANGED sessions

\* `await LanguageModel.create(...)` settles: a session, or the catch block
CreateSettles(r, ok) ==
  /\ runs[r].pc = "create"
  /\ IF ok
     THEN /\ sessions' = Append(sessions, [run |-> r, open |-> TRUE])
          /\ runs' = [runs EXCEPT ![r] = [@ EXCEPT !.pc = "prompt",
                                                   !.session = Len(sessions) + 1]]
     ELSE /\ runs' = [runs EXCEPT ![r] = Return(@, Null)]
          /\ UNCHANGED sessions

\* what the run returns once session.prompt has resolved with `text`
PromptResult(kind, text) ==
  IF kind = "chrome.suggestValue" THEN ChromeSuggestion(text)
  ELSE IF kind = "chrome.autofill" THEN ChromeAutofillData(text)
  ELSE Some(text)

\* `await session.prompt(prompt)` settles.  Resolved: session.destroy() is the
\* next statement, then the result is built.  Rejected: control goes to the
\* catch block, which returns null.
PromptSettles(r, resolved, text) ==
  /\ runs[r].pc = "prompt"
  /\ IF resolved
     THEN /\ sessions' = [sessions EXCEPT ![runs[r].session].open = FALSE]
          /\ runs' = [runs EXCEPT ![r] =
               Return([@ EXCEPT !.answer = "resolved", !.text = text],
                      PromptResult(runs[r].kind, text))]
     ELSE /\ runs' = [runs EXCEPT ![r] = Return([@ EXCEPT !.answer = "rejected"], Null)]
          /\ UNCHANGED sessions

\* `await availability()` settles with an answer or throws
AvailabilitySettles(r, answer) ==
  /\ runs[r].pc = "availability"
  /\ runs' = [runs EXCEPT ![r] =
       Return([@ EXCEPT !.answer = answer],
              IF answer = "throw" THEN Some(ErrorStatus)
              ELSE IF runs[r].via = "chrome" THEN Some(ChromeAvailability(answer))
              ELSE Some(LegacyAvailability(answer)))]
  /\ UNCHANGED sessions

\* GET apiUrl/health of CustomServerProvider.checkAvailability settles
HealthResponds(r, outcome) ==
  /\ runs[r].pc = "health"
  /\ runs' = [runs EXCEPT ![r] =
       Return([@ EXCEPT !.answer = outcome],
              IF outcome = "reject" THEN Some(UnavailableStatus)
              ELSE Some(CustomAvailability(outcome = "ok")))]
  /\ UNCHANGED sessions

\* POST apiUrl/api/autofill settles: the request fails, the response is not
\* ok, or it is ok with the JSON body `data`
ServerResponds(r, outcome, data) ==
  /\ runs[r].pc = "fetch"
  /\ outcome # "ok" => data = NoContext
  /\ runs' = [runs EXCEPT ![r] =
       Return([@ EXCEPT !.answer = outcome, !.data = data],
              IF outcome # "ok" THEN Null
              ELSE IF runs[r].kind = "custom.autofill" THEN CustomAutofillData(data)
              ELSE LegacyServerData(data))]
  /\ UNCHANGED sessions

\* the configurations the assistant checks availability under
AvailConfigs ==
  {[fallbackOnError |-> TRUE],
   [providers |-> <<>>, executionOrder |-> <<>>, fallbackOnError |-> TRUE],
   [providers |-> <<[type |-> "chrome"]>>, executionOrder |-> <<"chrome">>,
    fallbackOnError |-> TRUE],
   [providers |-> <<[type |-> "openai", apiKey |-> "sk"]>>, executionOrder |-> <<"openai">>,
    fallbackOnError |-> TRUE],
   [providers |-> <<[type |-> "custom"]>>, executionOrder |-> <<"custom">>,
    fallbackOnError |-> TRUE]}

InitProvider ==
  /\ effectiveConfig \in AvailConfigs
  /\ enabled = TRUE /\ formContextRef = NoContext /\ calls = <<>>
  /\ IdleCfg /\ IdleForm /\ IdleLoading /\ IdleRuns

ProviderFrame == UNCHANGED <<cfgVars, effectiveConfig, enabled, formContextRef, calls,
                             formVars, loadVars>>

NextProvider ==
  \/ \E kind \in RunKinds : \E present \in BOOLEAN : StartRun(kind, present) /\ ProviderFrame
  \/ \E r \in DOMAIN runs : \E ok \in BOOLEAN : CreateSettles(r, ok) /\ ProviderFrame
  \/ \E r \in DOMAIN runs : \E resolved \in BOOLEAN : \E text \in PromptTexts :
       PromptSettles(r, resolved, text) /\ ProviderFrame
  \/ \E r \in DOMAIN runs : \E answer \in AvailabilityAnswers \cup {"throw"} :
       AvailabilitySettles(r, answer) /\ ProviderFrame
  \/ \E r \in DOMAIN runs : \E outcome \in {"ok", "notok", "reject"} :
       HealthResponds(r, outcome) /\ ProviderFrame
  \/ \E r \in DOMAIN runs : \E outcome \in {"ok", "notok", "reject"} :
       \E data \in ServerBodies : ServerResponds(r, outcome, data) /\ ProviderFrame

SpecProvider == InitProvider /\ [][NextProvider]_vars

-----------------------------------------------------------------------------
(* SpecHttp: suggestValue and autofill of the hosted-LLM and custom-endpoint *)
(* executors, one run after the other, under every reply to their request    *)

HttpKinds ==
  {"openai.suggestValue", "openai.autofill", "custom.suggestValue", "custom.autofill"}

\* fetch rejects, the response is not ok, response.json() rejects, or the
\* response is ok and carries a JSON body
HttpOutcomes == {"reject", "notok", "badjson", "ok"}

\* The JSON bodies of an ok response.  Hosted LLM: data.choices?.[0]?.message
\* ?.content is a text or undefined.  Custom endpoint: data.suggestion,
\* data.autofillData.
HttpBodies(kind) ==
  IF kind \in {"openai.suggestValue", "openai.autofill"}
  THEN {NoContext} \cup {[content |-> t] : t \in PromptTexts \cup {<<>>, <<" ">>}}
  ELSE IF kind = "custom.suggestValue"
  THEN {NoContext, [suggestion |-> <<>>], [suggestion |-> <<"Alice">>]}
  ELSE ServerBodies

\* String.prototype.trim
Trim(text) ==
  LET inked == {i \in 1..Len(text) : text[i] # " "}
  IN  IF inked = {} THEN <<>>
      ELSE SubSeq(text, Min(inked), CHOOSE i \in inked : \A k \in inked : k <= i)

\* how a try block ends: it returns a value or it throws
Thrown == [thrown |-> TRUE, val |-> Null]
Value(v) == [thrown |-> FALSE, val |-> v]

\* the try block of the method, from the settled fetch on
TryBlock(kind, outcome, body) ==
  IF outcome # "ok" THEN Thrown
  ELSE IF kind = "openai.suggestValue"
  THEN IF Has(body, "content") /\ Trim(body.content) # <<>>
       THEN Value(Some([suggestion |-> Trim(body.content), provider |-> "openai"]))
       ELSE Value(Null)
  ELSE IF kind = "openai.autofill"
  THEN IF ~Has(body, "content") \/ Trim(body.content) = <<>> THEN Value(Null)
       ELSE LET m == JsonMatch(Trim(body.content))
            IN  IF m = Null THEN Value(Null)
                ELSE IF JsonParse(Val(m)) = Null THEN Thrown
                ELSE Value(JsonParse(Val(m)))
  ELSE IF kind = "custom.suggestValue"
  THEN IF Has(body, "suggestion") /\ body.suggestion # <<>>
       THEN Value(Some([suggestion |-> body.suggestion, provider |-> "custom"]))
       ELSE Value(Null)
  ELSE Value(CustomAutofillData(body))

\* the method's catch block: console.error(...) and `return null`
CatchBlockMutant(run, t) ==
  IF t.thrown THEN [run EXCEPT !.pc = "done", !.rejected = TRUE] ELSE Return(run, t.val)
CatchBlock(run, t) ==
  IF t.thrown THEN Return(run, Null) ELSE Return(run, t.val)

\* the method is called: it sends its request
StartHttp(kind) ==
  /\ Len(runs) < MaxRuns
  /\ \A r \in DOMAIN runs : runs[r].pc = "done"
  /\ runs' = Append(runs, [NewRun(kind, TRUE) EXCEPT !.pc = "fetch"])
  /\ UNCHANGED sessions

\* the request settles
HttpResponds(r, outcome, body) ==
  /\ runs[r].pc = "fetch" /\ runs[r].kind \in HttpKinds
  /\ body \in HttpBodies(runs[r].kind)
  /\ outcome # "ok" => body = NoContext
  /\ runs' = [runs EXCEPT ![r] =
       CatchBlock([@ EXCEPT !.answer = outcome, !.data = body],
                  TryBlock(runs[r].kind, outcome, body))]
  /\ UNCHANGED sessions

InitHttp ==
  /\ effectiveConfig =
       [providers |-> <<[type |-> "openai", apiKey |-> "sk"], [type |-> "custom"]>>,
        executionOrder |-> <<"openai", "custom">>, fallbackOnError |-> TRUE]
  /\ enabled = TRUE /\ formContextRef = NoContext /\ calls = <<>>
  /\ IdleCfg /\ IdleForm /\ IdleLoading /\ IdleRuns

NextHttp ==
  \/ \E kind \in HttpKinds : StartHttp(kind) /\ ProviderFrame
  \/ \E r \in DOMAIN runs : \E outcome \in HttpOutcomes :
       \E body \in HttpBodies(runs[r].kind) : HttpResponds(r, outcome, body) /\ ProviderFrame

SpecHttp == InitHttp /\ [][NextHttp]_vars

-----------------------------------------------------------------------------
(* SpecProgress: autofill runs of the three executors, where the on-device   *)
(* capability fires downloadprogress events while the session is created     *)

MaxEvents == 2

\* e.loaded of a downloadprogress event, in whole models: nothing, all of it,
\* and a value beyond the whole that a well-behaved capability never reports
LoadedValues == {0, 1, 2}

\* the log of one autofill run: the events its monitor received and the values
\* it handed to onProgress
NoProgress == [events |-> <<>>, delivered |-> <<>>]

\* (e) => { onProgress?.(e.loaded * 100) }
OnProgressMutant(log, loaded) ==
  [events |-> Append(log.events, loaded),
   delivered |-> IF loaded * 100 > 100 THEN log.delivered
                 ELSE Append(log.delivered, loaded * 100)]
OnProgress(log, loaded) ==
  [events |-> Append(log.events, loaded),
   delivered |-> Append(log.delivered, ProgressOf(loaded))]

StartAutofill(kind, present) ==
  /\ Len(runs) < MaxRuns
  /\ \A r \in DOMAIN runs : runs[r].pc = "done"
  /\ runs' = Append(runs,
       IF kind = "chrome.autofill"
       THEN BeginRun(NewRun(kind, present), effectiveConfig) @@ [progress |-> NoProgress]
       ELSE [NewRun(kind, TRUE) EXCEPT !.pc = "fetch"] @@ [progress |-> NoProgress])
  /\ UNCHANGED sessions

\* a downloadprogress event reaches the monitor of the session being created
DownloadEvent(r, loaded) ==
  /\ runs[r].pc = "create" /\ runs[r].kind = "chrome.autofill"
  /\ Len(runs[r].progress.events) < MaxEvents
  /\ runs' = [runs EXCEPT ![r].progress = OnProgress(@, loaded)]
  /\ UNCHANGED sessions

NextProgress ==
  \/ \E kind \in {"chrome.autofill", "openai.autofill", "custom.autofill"} :
       StartAutofill(kind, TRUE) /\ ProviderFrame
  \/ \E r \in DOMAIN runs : \E loaded \in LoadedValues :
       DownloadEvent(r, loaded) /\ ProviderFrame
  \/ \E r \in DOMAIN runs : \E ok \in BOOLEAN : CreateSettles(r, ok) /\ ProviderFrame
  \/ \E r \in DOMAIN runs :
       PromptSettles(r, TRUE, <<"Sure:", "{", "name:Alice", "}">>) /\ ProviderFrame
  \/ \E r \in DOMAIN runs : HttpResponds(r, "notok", NoContext) /\ ProviderFrame

SpecProgress == InitHttp /\ [][NextProgress]_vars

-----------------------------------------------------------------------------
(* SpecFirst: an assistant whose provider list may hold disabled descriptors *)
(* checks availability and runs one suggestion under the same configuration  *)

FirstTypes == {"chrome", "openai"}

FirstConfigs ==
  LET lists  == SeqsUpTo(Descriptors(FirstTypes, {FALSE}, {}), MaxProviders)
      orders == SeqsUpTo(FirstTypes, MaxOrder)
  IN  {[providers |-> ps, executionOrder |-> o, fallbackOnError |-> fb] :
         ps \in lists, o \in orders, fb \in BOOLEAN}

InitFirst ==
  /\ effectiveConfig \in FirstConfigs
  /\ enabled = TRUE /\ formContextRef = NoContext
  /\ calls = <<IdleCall>>
  /\ IdleCfg /\ IdleForm /\ IdleLoading /\ IdleRuns

NextFirst ==
  \/ StartRun("checkAvailability", TRUE) /\ ProviderFrame
  \/ \E r \in DOMAIN runs : \E answer \in {"readily", "unavailable"} :
       AvailabilitySettles(r, answer) /\ ProviderFrame
  \/ SuggestValue(1, "caller", "name", "A") /\ ExecFrame
  \/ \E kind \in OutcomeKinds : ProviderSettles(1, kind) /\ ExecFrame

SpecFirst == InitFirst /\ [][NextFirst]_vars

-----------------------------------------------------------------------------
(* SpecToggle: a form, with or without an ambient AIFormProvider that turns  *)
(* AI off, re-renders with other `ai` options between aiAutofill calls       *)

\* the `ai` options of the renders: enabled left out, on, or off
ToggleOptions ==
  WithOptional({[excludeFields |-> {"password"},
                 providers |-> <<[type |-> "chrome"]>>,
                 executionOrder |-> <<"chrome">>]},
               "enabled", {TRUE, FALSE})

ToggleProps == {NoContext, [providers |-> <<[type |-> "openai"]>>, enabled |-> FALSE]}

\* useForm renders again with the options `opts`: mergedConfig, the options
\* of useAIAssistant and the context cell follow in the same render
Rerender(opts) ==
  /\ mounted /\ opts # aiOptions
  /\ aiOptions' = opts
  /\ LET m == MergedConfig(opts, contextValue)
     IN  /\ mergedConfig' = m
         /\ enabled' = m.enabled
         /\ effectiveConfig' = EffectiveConfig(m, contextValue)
         /\ formContextRef' = MergedFormContext(formValues, m)
  /\ UNCHANGED <<props, contextValue, calls, formVars, loadVars, provVars>>

InitToggle ==
  /\ props \in ToggleProps
  /\ contextValue = IF props = NoContext THEN NoContext ELSE AIFormProvider(props)
  /\ aiOptions \in ToggleOptions
  /\ mergedConfig = MergedConfig(aiOptions, contextValue)
  /\ enabled = mergedConfig.enabled
  /\ effectiveConfig = EffectiveConfig(mergedConfig, contextValue)
  /\ formValues = [name |-> "", password |-> "hunter2"]
  /\ dirtyFields = {}
  /\ formContextRef = MergedFormContext(formValues, mergedConfig)
  /\ calls = <<>>
  /\ mounted = TRUE
  /\ blurs = [f \in {"name", "password"} |-> 0]
  /\ debounceTimers = [f \in {"name", "password"} |-> 0]
  /\ armed = {}
  /\ nextTimer = 1
  /\ timerLog = <<>>
  /\ IdleLoading /\ IdleRuns

NextToggle ==
  \/ \E opts \in ToggleOptions : Rerender(opts)
  \/ \E fields \in {Null, Some(<<"name">>)} : CanStart(MaxOverlap) /\ AiAutofill(fields)
  \/ \E c \in DOMAIN calls : \E kind \in FormOutcomeKinds : \E throws \in BOOLEAN :
       FormProviderSettles(c, kind, throws)

SpecToggle == InitToggle /\ [][NextToggle]_vars

-----------------------------------------------------------------------------
(* SpecRefresh: a form mounts and its refreshAvailability is called, under   *)
(* any first provider and any environment                                    *)

MaxRefreshes == 2

\* `if (autoCheckAvailability && aiEnabled) void refreshAvailability()`
ChecksOnMountMutant(cfg) == cfg.autoCheckAvailability
ChecksOnMount(cfg) == cfg.autoCheckAvailability /\ cfg.enabled

\* What refreshAvailability stores once `await ai.checkAvailability()` has
\* settled: the status, or from the catch block the error status
RefreshOutcomeMutant(run) == run.ret
RefreshOutcome(run) == IF run.rejected THEN Some(ErrorStatus) ELSE run.ret

\* refreshAvailability up to the await, and through to its end when
\* ai.checkAvailability settles without waiting for anything.  The callback is
\* memoized with an empty dependency list: its `ai` is the one of the render
\* that created it.
RefreshStart(by, present) ==
  LET run == BeginRun(NewRun("checkAvailability", present), refreshAi)
  IN  /\ runs' = Append(runs, run)
      /\ IF run.pc = "done"
         THEN /\ refreshes' = Append(refreshes, [by |-> by, run |-> Len(runs) + 1,
                                                 state |-> "resolved"])
              /\ aiAvailability' = RefreshOutcome(run)
         ELSE /\ refreshes' = Append(refreshes, [by |-> by, run |-> Len(runs) + 1,
                                                 state |-> "running"])
              /\ aiAvailability' = aiAvailability
      /\ UNCHANGED sessions

\* the part of the form's state that mounting and refreshing leave alone
RefreshFrame ==
  UNCHANGED <<cfgVars, effectiveConfig, enabled, formContextRef, calls, formValues,
              dirtyFields, blurs, debounceTimers, armed, nextTimer, timerLog,
              aiLoading, aiDownloadProgress, aiOps, refreshAi>>

\* the form mounts: the mount effect runs
Mount(present) ==
  /\ ~mounted
  /\ mounted' = TRUE
  /\ IF ChecksOnMount(mergedConfig)
     THEN RefreshStart("mount", present)
     ELSE UNCHANGED <<availVars, provVars>>
  /\ RefreshFrame

\* the caller polls: refreshAvailability()
RefreshAvailability(present) ==
  /\ mounted
  /\ Len(refreshes) < MaxRefreshes
  /\ RefreshStart("caller", present)
  /\ UNCHANGED mounted
  /\ RefreshFrame

\* the check that a refresh awaits has settled (runs' holds how): the refresh
\* goes on after its await
RefreshResumes(r) ==
  /\ \E i \in DOMAIN refreshes :
       /\ refreshes[i].run = r /\ refreshes[i].state = "running"
       /\ refreshes' = [refreshes EXCEPT ![i].state = "resolved"]
  /\ aiAvailability' = RefreshOutcome(runs'[r])
  /\ UNCHANGED mounted
  /\ RefreshFrame

\* the `ai` options the forms are drawn with
RefreshOptions ==
  LET firsts == {NoContext} \cup
                {[providers |-> <<p>>, executionOrder |-> <<p.type>>] :
                   p \in {[type |-> "chrome"], [type |-> "openai"],
                          [type |-> "custom"], [type |-> DeclaredOnlyType]}}
      r1 == WithOptional(firsts, "enabled", {FALSE})
  IN  WithOptional(r1, "autoCheckAvailability", {FALSE})

InitRefresh ==
  /\ props = NoContext /\ contextValue = NoContext
  /\ aiOptions \in RefreshOptions
  /\ mergedConfig = MergedConfig(aiOptions, NoContext)
  /\ effectiveConfig = EffectiveConfig(mergedConfig, NoContext)
  /\ enabled = mergedConfig.enabled
  /\ formValues = [name |-> "A", password |-> "hunter2"]
  /\ dirtyFields = {}
  /\ formContextRef = MergedFormContext(formValues, mergedConfig)
  /\ calls = <<>>
  /\ mounted = FALSE
  /\ blurs = [f \in DOMAIN formValues |-> 0]
  /\ debounceTimers = [f \in DOMAIN formValues |-> 0]
  /\ armed = {}
  /\ nextTimer = 1
  /\ timerLog = <<>>
  /\ IdleLoading /\ IdleRuns

NextRefresh ==
  \/ \E present \in BOOLEAN : Mount(present)
  \/ \E present \in BOOLEAN : RefreshAvailability(present)
  \/ \E r \in DOMAIN runs : \E answer \in AvailabilityAnswers \cup {"throw"} :
       AvailabilitySettles(r, answer) /\ RefreshResumes(r)
  \/ \E r \in DOMAIN runs : \E outcome \in {"ok", "notok", "reject"} :
       HealthResponds(r, outcome) /\ RefreshResumes(r)

SpecRefresh == InitRefresh /\ [][NextRefresh]_vars

-----------------------------------------------------------------------------
(* SpecStale: a mounted form re-renders with another provider list or order  *)
(* and its refreshAvailability is called again                               *)

StaleOptions ==
  {[providers |-> <<[type |-> "chrome"]>>, executionOrder |-> <<"chrome">>],
   [providers |-> <<[type |-> "openai", apiKey |-> "sk"]>>, executionOrder |-> <<"openai">>],
   [providers |-> <<[type |-> "custom"]>>, executionOrder |-> <<"custom">>],
   [providers |-> <<[type |-> "chrome"], [type |-> "openai", apiKey |-> "sk"]>>,
    executionOrder |-> <<"openai", "chrome">>]}

InitStale ==
  /\ props = NoContext /\ contextValue = NoContext
  /\ aiOptions \in StaleOptions
  /\ mergedConfig = MergedConfig(aiOptions, NoContext)
  /\ effectiveConfig = EffectiveConfig(mergedConfig, NoContext)
  /\ enabled = mergedConfig.enabled
  /\ formValues = [name |-> "A", password |-> "hunter2"]
  /\ dirtyFields = {}
  /\ formContextRef = MergedFormContext(formValues, mergedConfig)
  /\ calls = <<>>
  /\ mounted = FALSE
  /\ blurs = [f \in DOMAIN formValues |-> 0]
  /\ debounceTimers = [f \in DOMAIN formValues |-> 0]
  /\ armed = {}
  /\ nextTimer = 1
  /\ timerLog = <<>>
  /\ IdleLoading /\ IdleRuns

NextStale ==
  \/ Mount(TRUE)
  \/ \E opts \in StaleOptions : Rerender(opts)
  \/ RefreshAvailability(TRUE)
  \/ \E r \in DOMAIN runs : \E answer \in AvailabilityAnswers \cup {"throw"} :
       AvailabilitySettles(r, answer) /\ RefreshResumes(r)
  \/ \E r \in DOMAIN runs : \E outcome \in {"ok", "notok", "reject"} :
       HealthResponds(r, outcome) /\ RefreshResumes(r)

SpecStale == InitStale /\ [][NextStale]_vars

-----------------------------------------------------------------------------
(* SpecPolling: the form of SpecForm (on-device provider first) mounts, the  *)
(* caller polls availability while the model is still to download, and the   *)
(* form is used meanwhile: blur, aiSuggest, aiAutofill, download progress    *)

InitPolling ==
  /\ props = NoContext /\ contextValue = NoContext
  /\ aiOptions = NoContext
  /\ mergedConfig = FormConfig
  /\ effectiveConfig = EffectiveConfig(FormConfig, NoContext)
  /\ enabled = FormConfig.enabled
  /\ formValues = [name |-> "A", password |-> "hunter2"]
  /\ dirtyFields = {}
  /\ formContextRef = MergedFormContext(formValues, FormConfig)
  /\ calls = <<>>
  /\ mounted = FALSE
  /\ blurs = [f \in DOMAIN formValues |-> 0]
  /\ debounceTimers = [f \in DOMAIN formValues |-> 0]
  /\ armed = {}
  /\ nextTimer = 1
  /\ timerLog = <<>>
  /\ IdleLoading /\ IdleRuns

NextPolling ==
  \/ Mount(TRUE)
  \/ RefreshAvailability(TRUE)
  \/ \E r \in DOMAIN runs : \E answer \in {"downloadable", "downloading"} :
       AvailabilitySettles(r, answer) /\ RefreshResumes(r)
  \/ Blur("name")
  \/ BlurResumes("name")
  \/ \E t \in armed : TimerFires(t)
  \/ CanStart(MaxCalls) /\ AiSuggest("name")
  \/ CanStart(MaxCalls) /\ AiAutofill(Null)
  \/ \E c \in DOMAIN calls : \E kind \in FormOutcomeKinds :
       FormProviderSettles(c, kind, FALSE)
  \/ \E c \in DOMAIN calls : DownloadProgress(c, 1)

SpecPolling == InitPolling /\ [][NextPolling]_vars

-----------------------------------------------------------------------------
(* Properties of the form integration layer (SpecForm) *)

\* C6: a provider called for a debounced suggestion receives the form context
\* that was in the cell when the timer fired, whatever the cell held when the
\* timer was armed; this holds for every provider of the call's fallback chain.
C6_ProviderSeesContextAtFire ==
  \A t \in DOMAIN timerLog :
    timerLog[t].called
    => /\ timerLog[t].call \in DOMAIN calls
       /\ \A n \in 1..Len(calls[timerLog[t].call].tried) :
            calls[timerLog[t].call].tried[n].ctx = timerLog[t].fireCtx

\* C6 witness: the cell was updated between the arming and the firing of a
\* timer, and the second provider of the chain was called with the later context.
C6_Witness ==
  \E t \in DOMAIN timerLog :
    /\ timerLog[t].called
    /\ timerLog[t].armCtx # timerLog[t].fireCtx
    /\ Len(calls[timerLog[t].call].tried) = 2
    /\ calls[timerLog[t].call].tried[2].ctx = timerLog[t].fireCtx
    /\ calls[timerLog[t].call].tried[2].ctx["name"] = "A"
    /\ timerLog[t].armCtx["name"] = ""

\* C13: within one suggestValue or autofill call, every provider invoked along
\* the fallback chain receives the arguments the first one received (field
\* name, current value, fields, context), whatever the form-context cell holds
\* when the later provider is invoked.
C13_SameArgumentsAlongChain ==
  \A c \in DOMAIN calls :
    \A n \in 1..Len(calls[c].tried) :
      LET first == calls[c].tried[1]
          t     == calls[c].tried[n]
      IN  /\ t.name = first.name /\ t.value = first.value
          /\ t.fields = first.fields /\ t.ctx = first.ctx

\* C13 witness: the first provider failed and the second provider is running
\* with the context the first one got, while the cell holds a later context.
C13_Witness ==
  \E c \in DOMAIN calls :
    /\ Len(calls[c].tried) = 2
    /\ calls[c].tried[1].outcome.kind = "null"
    /\ calls[c].tried[2].outcome = Pending
    /\ calls[c].tried[2].ctx = calls[c].tried[1].ctx
    /\ calls[c].tried[2].ctx["name"] = "" /\ formContextRef["name"] = "A"

\* C7: a timer that was armed when a further blur of its field arrived never
\* runs its suggestion call (the call is left to the timer armed last).
C7_EarlierTimerNeverCalls ==
  \A t \in DOMAIN timerLog : timerLog[t].superseded => ~timerLog[t].called

\* C8: no debounce timer of the form starts a suggestValue call after the form
\* has unmounted.
C8_NoSuggestionAfterUnmount ==
  \A c \in DOMAIN calls : calls[c].by = "timer" => ~calls[c].afterUnmount

\* C9: no argument passed to a provider holds the value of a field listed in
\* excludeFields: not as an entry of the form context, not as currentValue.
C9_ExcludedValuesNotSent ==
  \A c \in DOMAIN calls :
    \A n \in 1..Len(calls[c].tried) :
      \A f \in mergedConfig.excludeFields :
        /\ f \in DOMAIN calls[c].tried[n].ctx => calls[c].tried[n].ctx[f] \notin SecretValues
        /\ calls[c].tried[n].name = f => calls[c].tried[n].value \notin SecretValues

-----------------------------------------------------------------------------
(* Properties of executeAIProviders (SpecExec) *)

Failed(t) == t.outcome.kind \in {"null", "throw"}

\* C1: with fallbackOnError = true, when the first k tried providers each
\* returned null or threw and the (k+1)-th tried provider returned a non-null
\* result, executeAIProviders has returned exactly that result, tagged with the
\* kind of the order entry it was tried for, and no provider was invoked after it.
C1_FirstSuccessReturned ==
  \A c \in DOMAIN calls :
    \A n \in 1..Len(calls[c].tried) :
      LET t == calls[c].tried[n]
      IN  (/\ effectiveConfig.fallbackOnError
           /\ t.outcome.kind = "value"
           /\ \A m \in 1..(n - 1) : Failed(calls[c].tried[m]))
          => /\ n = Len(calls[c].tried)
             /\ calls[c].pc = "done"
             /\ ~calls[c].rejected
             /\ calls[c].exec = Some([result   |-> t.outcome.val,
                                      provider |-> Some(effectiveConfig.executionOrder[t.pos])])

\* C1 witness: the provider of the first order entry failed and the provider of
\* a later entry, of another kind, succeeded, with fallbackOnError = true.
C1_Witness ==
  /\ effectiveConfig.fallbackOnError
  /\ Len(calls) = 1 /\ calls[1].pc = "done"
  /\ Len(calls[1].tried) >= 2
  /\ calls[1].tried[1].outcome.kind \in {"null", "throw"}
  /\ calls[1].tried[Len(calls[1].tried)].outcome.kind = "value"
  /\ calls[1].tried[Len(calls[1].tried)].pos > 1
  /\ effectiveConfig.executionOrder[1] # effectiveConfig.executionOrder[2]

\* C2: with fallbackOnError = false at most one provider is invoked; when the
\* first provider tried returned null or threw, the call has returned
\* {result: null, provider: null} and no later order entry was invoked.
C2_NoFallbackStopsAtFirst ==
  \A c \in DOMAIN calls :
    (calls[c].tried # <<>> /\ ~effectiveConfig.fallbackOnError)
    => /\ Len(calls[c].tried) = 1
       /\ Failed(calls[c].tried[1])
          => /\ calls[c].pc = "done"
             /\ ~calls[c].rejected
             /\ calls[c].exec = Some([result |-> Null, provider |-> Null])

\* C2 witness: the first order entry's provider failed with fallbackOnError =
\* false while the second order entry names another enabled, constructible
\* provider that was left untried.
C2_Witness ==
  /\ Len(calls) = 1 /\ calls[1].pc = "done"
  /\ ~effectiveConfig.fallbackOnError
  /\ Len(calls[1].tried) = 1
  /\ calls[1].tried[1].pos = 1
  /\ calls[1].tried[1].outcome.kind = "throw"
  /\ Len(effectiveConfig.executionOrder) = 2
  /\ \E j \in 1..Len(effectiveConfig.providers) :
       /\ effectiveConfig.providers[j].type = effectiveConfig.executionOrder[2]
       /\ effectiveConfig.providers[j].type \in KnownTypes
       /\ ~Has(effectiveConfig.providers[j], "enabled")
       /\ j # calls[1].tried[1].idx

\* C3: executeAIProviders never rejects, whatever the providers do (value, null,
\* thrown error, createAIProvider throwing); once it has returned without any
\* tried provider having returned a non-null result, it returned
\* {result: null, provider: null}.
C3_NeverRejects ==
  \A c \in DOMAIN calls :
    /\ ~calls[c].rejected
    /\ (calls[c].pc = "done" /\ enabled /\ Has(effectiveConfig, "providers")
        /\ Has(effectiveConfig, "executionOrder"))
       => /\ calls[c].exec # Null
          /\ (\A n \in 1..Len(calls[c].tried) : calls[c].tried[n].outcome.kind # "value")
             => calls[c].exec = Some([result |-> Null, provider |-> Null])

\* C3 witness: a finished call in which one provider threw and the order also
\* named a descriptor createAIProvider cannot construct.
C3_Witness ==
  /\ Len(calls) = 1 /\ calls[1].pc = "done"
  /\ calls[1].exec = Some([result |-> Null, provider |-> Null])
  /\ \E n \in 1..Len(calls[1].tried) : calls[1].tried[n].outcome.kind = "throw"
  /\ \E i \in 1..Len(effectiveConfig.executionOrder) :
       /\ effectiveConfig.executionOrder[i] \notin KnownTypes
       /\ \E j \in 1..Len(effectiveConfig.providers) :
            /\ effectiveConfig.providers[j].type = effectiveConfig.executionOrder[i]
            /\ ~Has(effectiveConfig.providers[j], "enabled")

\* C10: autofill with AI enabled and configured providers, once every provider
\* tried declined or failed, has resolved (not rejected) to the map whose keys are
\* exactly the requested fields, each field f mapped to "Example_" followed by f.
C10_ExhaustedAutofillExampleMap ==
  \A c \in DOMAIN calls :
    (/\ calls[c].op = "autofill" /\ calls[c].pc = "done" /\ enabled
     /\ Has(effectiveConfig, "providers") /\ Has(effectiveConfig, "executionOrder")
     /\ \A n \in 1..Len(calls[c].tried) : calls[c].tried[n].outcome.kind # "value")
    => /\ ~calls[c].rejected
       /\ calls[c].ret # Null
       /\ LET m == CHOOSE x \in calls[c].ret : TRUE
          IN  /\ DOMAIN m = {calls[c].fields[i] : i \in 1..Len(calls[c].fields)}
              /\ \A f \in DOMAIN m : m[f] = "Example_" \o f

\* C10 witness: an autofill of two fields finished after two providers failed.
C10_Witness ==
  /\ Len(calls) = 1 /\ calls[1].op = "autofill" /\ calls[1].pc = "done"
  /\ enabled
  /\ Len(calls[1].fields) = 2
  /\ Len(calls[1].tried) = 2
  /\ \A n \in 1..2 : calls[1].tried[n].outcome.kind \in {"null", "throw"}
  /\ calls[1].ret = Some([name |-> "Example_name", email |-> "Example_email"])

-----------------------------------------------------------------------------
(* Properties of the derived execution order (SpecOrder) *)

\* C4: with no explicit executionOrder (absent or empty), the order AIFormProvider
\* publishes holds exactly the kinds of the descriptors with enabled !== false,
\* by descending priority (a missing priority counts as 0), descriptors of equal
\* priority in their array order; no disabled descriptor has an entry.
C4_DerivedOrderStableByPriority ==
  (/\ contextValue # NoContext
   /\ ("executionOrder" \notin DOMAIN props \/ props.executionOrder = <<>>))
  => LET ps      == props.providers
         prio(i) == IF "priority" \in DOMAIN ps[i] THEN ps[i].priority ELSE 0
         E       == {i \in 1..Len(ps) : ~("enabled" \in DOMAIN ps[i] /\ ps[i].enabled = FALSE)}
         before(i) == {j \in E : prio(j) > prio(i) \/ (prio(j) = prio(i) /\ j < i)}
         rank(i) == 1 + Cardinality(before(i))
     IN  /\ Len(contextValue.executionOrder) = Cardinality(E)
         /\ \A i \in E : contextValue.executionOrder[rank(i)] = ps[i].type

\* C4 witness: an order derived from a list with a disabled descriptor, a
\* descriptor without priority between a negative and a positive one, and two
\* descriptors of equal priority and different kinds.
C4_Witness ==
  /\ contextValue # NoContext
  /\ ~Has(props, "executionOrder")
  /\ Len(props.providers) = 3
  /\ \E i, j, k \in 1..3 :
       /\ i < j
       /\ IsEnabled(props.providers[i]) /\ IsEnabled(props.providers[j])
       /\ Has(props.providers[i], "priority") /\ Has(props.providers[j], "priority")
       /\ props.providers[i].priority = props.providers[j].priority
       /\ props.providers[i].type # props.providers[j].type
       /\ ~IsEnabled(props.providers[k])
  /\ Len(contextValue.executionOrder) = 2

\* C12: autofill of an assistant whose AI is disabled invokes no provider and
\* returns a map whose keys are exactly the requested fields, each of them
\* mapped to the string 'AI disabled'.
C12_DisabledAutofillMarksEveryField ==
  \A c \in DOMAIN calls :
    (calls[c].op = "autofill" /\ calls[c].pc # "idle" /\ ~enabled)
    => /\ calls[c].pc = "done"
       /\ calls[c].tried = <<>>
       /\ calls[c].ret # Null
       /\ DOMAIN Val(calls[c].ret) = Range(calls[c].fields)
       /\ \A f \in Range(calls[c].fields) : Val(calls[c].ret)[f] = "AI disabled"

\* C12 witness: a disabled assistant that has a provider configured was asked
\* to autofill two fields.
C12_Witness ==
  /\ ~enabled /\ Configured(effectiveConfig)
  /\ calls[1].op = "autofill" /\ calls[1].pc = "done"
  /\ calls[1].fields = <<"name", "email">>
  /\ Val(calls[1].ret) = [name |-> "AI disabled", email |-> "AI disabled"]

-----------------------------------------------------------------------------
(* Properties of aiAutofill, aiSuggest and the loading state (SpecLoading) *)

\* every provider the facade call tried failed, and it tried at least one
AllFailed(call) ==
  /\ Len(call.tried) > 0
  /\ \A n \in 1..Len(call.tried) : Failed(call.tried[n])

\* C11: an aiAutofill whose configured providers have all failed ends with its
\* promise rejected.
C11_AutofillRejectsWhenAllFail ==
  \A i \in DOMAIN aiOps :
    (/\ aiOps[i].op = "aiAutofill" /\ aiOps[i].state # "running"
     /\ aiOps[i].call # 0 /\ AllFailed(calls[aiOps[i].call]))
    => aiOps[i].state = "rejected"

\* C18: aiLoading is true exactly when an aiAutofill or aiSuggest invocation of
\* the form is in progress.
C18_LoadingIffCallInProgress ==
  aiLoading <=> (\E i \in DOMAIN aiOps : aiOps[i].state = "running")

\* C19: an aiAutofill that set the loading flag has, when it ends (resolved
\* after success or after the empty-field-set return, or rejected after a
\* thrown error), aiLoading = false and aiDownloadProgress = null; on an error
\* the reset is part of the step in which the promise rejects.
C19_AutofillResetsLoadingAndProgress ==
  \A i \in DOMAIN aiOps :
    (aiOps[i].op = "aiAutofill" /\ aiOps[i].setLoading /\ aiOps[i].state # "running")
    => /\ aiOps[i].endLoading = Some(FALSE)
       /\ aiOps[i].endProgress = Some(Null)

\* C19 witness: the three ways to end have all happened or can be told apart:
\* an aiAutofill ended by a thrown error after a provider had answered, and
\* another ended by the empty-field-set return.
C19_Witness ==
  \E i, j \in DOMAIN aiOps :
    /\ aiOps[i].op = "aiAutofill" /\ aiOps[i].state = "rejected"
    /\ aiOps[i].call # 0 /\ aiOps[i].endLoading = Some(FALSE)
    /\ aiOps[j].op = "aiAutofill" /\ aiOps[j].state = "resolved"
    /\ aiOps[j].call = 0 /\ aiOps[j].setLoading
    /\ ~aiLoading /\ aiDownloadProgress = Null

\* C20: when every provider call settles, every aiAutofill and aiSuggest
\* invocation in progress eventually ends, and aiLoading, once true, eventually
\* becomes false.
C20_CallsCompleteAndLoadingClears ==
  /\ \A i \in 1..MaxOverlap :
       (i \in DOMAIN aiOps /\ aiOps[i].state = "running")
         ~> (i \in DOMAIN aiOps /\ aiOps[i].state # "running")
  /\ aiLoading ~> (~aiLoading)

\* C20 witness: two overlapping invocations, an aiAutofill and an aiSuggest,
\* have both ended after their provider calls settled, and aiLoading is false.
C20_Witness ==
  \E i, j \in DOMAIN aiOps :
    /\ aiOps[i].op = "aiAutofill" /\ aiOps[j].op = "aiSuggest"
    /\ aiOps[i].state # "running" /\ aiOps[j].state # "running"
    /\ aiOps[i].call # 0 /\ aiOps[j].call # 0
    /\ Len(calls[aiOps[i].call].tried) = 2 /\ Len(calls[aiOps[j].call].tried) >= 1
    /\ ~aiLoading

-----------------------------------------------------------------------------
(* Properties of the provider executors (SpecProvider) *)

\* C14: a session created by a run of the on-device suggestValue / autofill
\* (or of the legacy helper) is destroyed by the time the run has returned,
\* however the prompt ended.
C14_SessionsDestroyedOnReturn ==
  \A k \in DOMAIN sessions :
    runs[sessions[k].run].pc = "done" => ~sessions[k].open

\* C15: the on-device checkAvailability answers available:false for
\* 'unavailable', available:false with needsDownload:true for 'downloadable',
\* and available:true with needsDownload:false for every other answer.
C15_OnDeviceAvailabilityMapping ==
  \A r \in DOMAIN runs :
    (/\ runs[r].kind = "chrome.checkAvailability" /\ runs[r].pc = "done"
     /\ runs[r].answer \in AvailabilityAnswers)
    => LET st == Val(runs[r].ret)
       IN  /\ runs[r].answer = "unavailable" => ~st.available
           /\ runs[r].answer = "downloadable" => ~st.available /\ st.needsDownload
           /\ runs[r].answer \notin {"unavailable", "downloadable"}
                => st.available /\ ~st.needsDownload

\* C16: with no provider configured, the assistant's checkAvailability returns
\* {available:false, status:'unavailable', needsDownload:false}, whatever the
\* ambient on-device capability answers.
C16_NoProvidersUnavailable ==
  \A r \in DOMAIN runs :
    (/\ runs[r].kind = "checkAvailability" /\ runs[r].pc = "done"
     /\ (~Has(effectiveConfig, "providers") \/ effectiveConfig.providers = <<>>))
    => ~runs[r].rejected /\ runs[r].ret = Some(UnavailableStatus)

\* C17: the custom-server autofill returns the map the response's autofillData
\* holds, whether autofillData is that object or a string that encodes it.
C17_StringAndObjectSameMap ==
  \A r \in DOMAIN runs :
    (/\ runs[r].kind = "custom.autofill" /\ runs[r].pc = "done"
     /\ runs[r].answer = "ok" /\ Has(runs[r].data, "autofillData"))
    => LET d == runs[r].data.autofillData
           m == IF d.t = "string" THEN Val(JsonParse(d.s)) ELSE d.o
       IN  runs[r].ret = Some(ObjectValue(m))

-----------------------------------------------------------------------------
(* Claims checked under SpecAutofill *)

\* the aiAutofill invocation whose facade call c returns in this step
AutofillReturns(c) ==
  /\ c \in DOMAIN calls /\ calls[c].by = "aiAutofill"
  /\ calls[c].pc = "exec" /\ calls'[c].pc = "done"

\* requested or default fields minus excludeFields
TargetSet(c) ==
  LET requested == aiOps[OpOf(aiOps, c)].requested
  IN  (IF requested = Null THEN DOMAIN formValues ELSE Range(Val(requested)))
        \ mergedConfig.excludeFields

\* C21: a step changes the value or the dirty/touched state of a field only
\* when an aiAutofill's provider call returns in that step and the field is
\* both a key of the returned map and a member of the target set (requested
\* or default fields minus excludeFields); unless setValue throws, every such
\* field then holds the returned value.
C21_AutofillWritesOnlyTargetKeys ==
  [][\A f \in DOMAIN formValues :
       /\ (formValues'[f] # formValues[f] \/ (f \in dirtyFields') # (f \in dirtyFields))
            => \E c \in DOMAIN calls :
                 /\ AutofillReturns(c)
                 /\ f \in DOMAIN Val(calls'[c].ret) /\ f \in TargetSet(c)
       /\ \A c \in DOMAIN calls :
            (/\ AutofillReturns(c) /\ aiOps'[OpOf(aiOps, c)].state = "resolved"
             /\ f \in DOMAIN Val(calls'[c].ret) /\ f \in TargetSet(c))
            => formValues'[f] = Val(calls'[c].ret)[f] /\ f \in dirtyFields'
    ]_vars

\* an aiAutofill(['name']) resolved whose provider returned name, email and
\* password: name was written; email and the excluded password were not
C21_Witness ==
  \E i \in DOMAIN aiOps :
    /\ aiOps[i].op = "aiAutofill" /\ aiOps[i].state = "resolved" /\ aiOps[i].call # 0
    /\ aiOps[i].requested = Some(<<"name">>)
    /\ calls[aiOps[i].call].exec # Null
    /\ Val(calls[aiOps[i].call].exec).provider # Null
    /\ DOMAIN Val(calls[aiOps[i].call].ret) = {"name", "email", "password"}
    /\ formValues = [name |-> "filled_name", email |-> "a@b.c", password |-> "hunter2"]
    /\ dirtyFields = {"name"}

-----------------------------------------------------------------------------
(* Claims checked under SpecSuggest *)

\* C22: no step of a suggestion (a blur timer that fires and calls
\* ai.suggestValue, an aiSuggest call, a provider of either that answers,
\* answers null or throws, the return of the call) changes a form value or a
\* field's dirty/touched state.
C22_SuggestionsNeverChangeValues ==
  [][(\E c \in DOMAIN calls' :
        /\ calls'[c].op = "suggest"
        /\ c \in DOMAIN calls => calls'[c] # calls[c])
     => formValues' = formValues /\ dirtyFields' = dirtyFields]_vars

\* a blur-triggered suggestion returned a suggestion that differs from the
\* field's text, after the first provider threw, and the field kept its text
C22_Witness ==
  \E c \in DOMAIN calls :
    /\ calls[c].pc = "done" /\ calls[c].op = "suggest" /\ calls[c].by = "timer"
    /\ Len(calls[c].tried) = 2 /\ calls[c].tried[1].outcome.kind = "throw"
    /\ calls[c].ret # Null
    /\ formValues[calls[c].name] = calls[c].value
    /\ Val(calls[c].ret) # calls[c].value

-----------------------------------------------------------------------------
(* Claims checked under SpecConfig *)

\* the per-form value when defined, otherwise the ambient one when defined,
\* otherwise the default (Null: none)
Precedence(k, default) ==
  Coalesce(Opt(aiOptions, k), Coalesce(Opt(contextValue, k), default))

\* C23: once the form has rendered, the effective enabled, debounceMs,
\* excludeFields, providers, executionOrder and fallbackOnError are each the
\* per-form value when defined, otherwise the value the ambient provider
\* publishes when defined, otherwise the default (enabled true, debounceMs 800,
\* excludeFields empty, fallbackOnError true; providers and executionOrder
\* stay undefined); the assistant runs with the same values.
C23_LocalThenAmbientThenDefault ==
  mergedConfig # NoContext =>
    /\ Opt(mergedConfig, "enabled") = Precedence("enabled", Some(TRUE))
    /\ Opt(mergedConfig, "debounceMs") = Precedence("debounceMs", Some(800))
    /\ Opt(mergedConfig, "excludeFields") = Precedence("excludeFields", Some({}))
    /\ Opt(mergedConfig, "fallbackOnError") = Precedence("fallbackOnError", Some(TRUE))
    /\ Opt(mergedConfig, "providers") = Precedence("providers", Null)
    /\ Opt(mergedConfig, "executionOrder") = Precedence("executionOrder", Null)
    /\ enabled = mergedConfig.enabled
    /\ \A k \in {"providers", "executionOrder", "fallbackOnError"} :
         Opt(effectiveConfig, k) = Opt(mergedConfig, k)

\* a form that sets enabled: true under an ambient provider with enabled:
\* false and excludeFields ['password'] has rendered: it is enabled, inherits
\* the excluded fields, and a provider call of it is running
C23_Witness ==
  /\ mergedConfig # NoContext /\ contextValue # NoContext
  /\ Has(aiOptions, "enabled") /\ aiOptions.enabled /\ ~contextValue.enabled
  /\ ~Has(aiOptions, "excludeFields")
  /\ mergedConfig.excludeFields = {"password"}
  /\ calls[1].pc = "exec"

\* C24: every provider call of a form under an ambient AIFormProvider that is
\* given a formContext receives that formContext in its context when the form
\* gives none of its own, and the form's own formContext when it gives one.
C24_AmbientFormContextReachesProviders ==
  \A i \in DOMAIN calls[1].tried :
    LET own     == Coalesce(Opt(aiOptions, "formContext"), Opt(props, "formContext"))
        ctx     == calls[1].tried[i].ctx
    IN  own # Null =>
          IF Val(own).t = "string"
          THEN Has(ctx, "_context") /\ ctx["_context"] = Val(own).s
          ELSE \A k \in DOMAIN Val(own).o : Has(ctx, k) /\ ctx[k] = Val(own).o[k]

-----------------------------------------------------------------------------
(* Claims checked under SpecExec *)

\* C25: when the first descriptor the orchestrator selects is one that
\* createAIProvider rejects (its kind is unknown), the call rejects with that
\* configuration error and no later order entry is tried.
C25_ConfigurationErrorSurfaces ==
  LET cfg  == effectiveConfig
      call == calls[1]
      j    == FindConfig(cfg.providers, cfg.executionOrder[1])
  IN  (/\ enabled /\ Configured(cfg) /\ call.pc # "idle"
       /\ Len(cfg.executionOrder) >= 1 /\ j # 0 /\ ~CanCreate(cfg.providers[j]))
      => call.pc = "done" /\ call.rejected /\ call.tried = <<>>

-----------------------------------------------------------------------------
(* Claims checked under SpecProvider *)

\* C26: every finished checkAvailability of an executor (on-device, hosted
\* LLM, custom endpoint) has resolved with a status, and where the check
\* failed inside (availability() threw, the health request was rejected) the
\* status is available: false, status: 'error'.
C26_CheckAvailabilityErrorsMapped ==
  \A r \in DOMAIN runs :
    (/\ runs[r].pc = "done"
     /\ runs[r].kind \in {"chrome.checkAvailability", "checkAvailability"}
     /\ runs[r].via \in {"chrome", "custom"})
    => /\ ~runs[r].rejected /\ runs[r].ret # Null
       /\ runs[r].answer \in {"throw", "reject"}
            => ~Val(runs[r].ret).available /\ Val(runs[r].ret).status = "error"

-----------------------------------------------------------------------------
(* Claims checked under SpecRefresh *)

\* the refresh i ends in this step
RefreshEnds(i) ==
  /\ i \in DOMAIN refreshes' /\ refreshes'[i].state = "resolved"
  /\ i \in DOMAIN refreshes => refreshes[i].state = "running"

\* C27: a refreshAvailability call ends by resolving, and in the step in which
\* it ends aiAvailability becomes exactly the status its checkAvailability
\* resolved with, or {available: false, status: 'error', needsDownload: false}
\* when checkAvailability rejected.
C27_RefreshStoresStatusOrError ==
  [][\A i \in DOMAIN refreshes' :
       /\ refreshes'[i].state \in {"running", "resolved"}
       /\ RefreshEnds(i) =>
            LET run == runs'[refreshes'[i].run]
            IN  /\ run.pc = "done"
                /\ aiAvailability' =
                     IF run.rejected
                     THEN Some([available |-> FALSE, status |-> "error",
                                needsDownload |-> FALSE])
                     ELSE run.ret
                /\ aiAvailability' # Null
    ]_vars

\* a refresh whose checkAvailability rejected (createAIProvider does not know
\* the kind of the first provider) has ended and stored the error status
C27_Witness ==
  /\ \E i \in DOMAIN refreshes :
       /\ refreshes[i].state = "resolved"
       /\ runs[refreshes[i].run].rejected
  /\ aiAvailability = Some(ErrorStatus)

\* C29: once mounted, the form has started exactly one refresh from its mount
\* effect when autoCheckAvailability and the effective enabled flag are both
\* true and none otherwise; aiAvailability is null exactly as long as no
\* refresh has ended.
C29_OneRefreshOnMount ==
  LET auto == {i \in DOMAIN refreshes : refreshes[i].by = "mount"}
  IN  /\ Cardinality(auto) =
           IF mounted /\ mergedConfig.autoCheckAvailability /\ mergedConfig.enabled
           THEN 1 ELSE 0
      /\ aiAvailability = Null
           <=> \A i \in DOMAIN refreshes : refreshes[i].state # "resolved"

\* the refresh of the mount effect has ended and a later one, started by the
\* caller, is still running: aiAvailability holds a status
C29_Witness ==
  /\ mounted /\ Len(refreshes) = 2
  /\ refreshes[1].by = "mount" /\ refreshes[1].state = "resolved"
  /\ refreshes[2].by = "caller" /\ refreshes[2].state = "running"
  /\ aiAvailability # Null

-----------------------------------------------------------------------------
(* Claims checked under SpecPolling *)

\* C28: a step changes the stored aiAvailability only when a
\* refreshAvailability call ends in it; steps of aiAutofill, aiSuggest, blur
\* timers and download-progress callbacks leave it as it is.
C28_OnlyRefreshChangesAvailability ==
  [][aiAvailability' # aiAvailability
       => /\ \E i \in DOMAIN refreshes' : RefreshEnds(i)
          /\ calls' = calls /\ aiOps' = aiOps /\ timerLog' = timerLog
          /\ aiDownloadProgress' = aiDownloadProgress]_vars

\* every poll has ended and the last stored 'downloadable'; an aiAutofill is
\* running on the on-device provider, whose progress callback has reported the
\* download as complete: the stored status still says a download is needed
C28_Witness ==
  /\ Len(refreshes) = MaxRefreshes
  /\ \A i \in DOMAIN refreshes : refreshes[i].state = "resolved"
  /\ aiAvailability # Null /\ Val(aiAvailability).status = "downloadable"
  /\ Val(aiAvailability).needsDownload
  /\ aiDownloadProgress = Some(100) /\ aiLoading
  /\ \E i \in DOMAIN aiOps :
       /\ aiOps[i].op = "aiAutofill" /\ aiOps[i].state = "running"
       /\ calls[aiOps[i].call].pc = "exec"

-----------------------------------------------------------------------------
(* Claims checked under SpecHttp *)

\* the ok response carries no content the method can use: no message content
\* or a blank one, for the hosted LLM's autofill a content without a JSON
\* object it can parse, no suggestion or autofillData
NoUsableContent(run) ==
  IF run.kind = "openai.suggestValue"
  THEN ~Has(run.data, "content") \/ run.data.content \in {<<>>, <<" ">>}
  ELSE IF run.kind = "openai.autofill"
  THEN \/ ~Has(run.data, "content")
       \/ \A m \in JsonObjects : \A i, j \in 1..Len(run.data.content) :
            SubSeq(run.data.content, i, j) # Stringify(m)
  ELSE IF run.kind = "custom.suggestValue"
  THEN ~Has(run.data, "suggestion") \/ run.data.suggestion = <<>>
  ELSE ~Has(run.data, "autofillData")

-----------------------------------------------------------------------------
(* Claims checked under SpecProgress *)

NonDecreasing(q) == \A i, j \in DOMAIN q : i <= j => q[i] <= q[j]

-----------------------------------------------------------------------------
(* Claims checked under SpecLoading: the target of aiAutofill *)

\* the aiAutofill invocation an enabled form starts in this step
AutofillStarts ==
  /\ Len(aiOps') = Len(aiOps) + 1
  /\ aiOps'[Len(aiOps')].op = "aiAutofill"
  /\ aiOps'[Len(aiOps')].setLoading

\* C32: aiAutofill called without fields targets every field the form knows,
\* less excludeFields; when nothing is left of the requested or default fields
\* after removing excludeFields, the invocation calls no provider, writes no
\* field and has aiLoading false when it returns.
C32_EmptyTargetCallsNothing ==
  [][AutofillStarts =>
       LET o == aiOps'[Len(aiOps')]
           target == (IF o.requested = Null THEN DOMAIN formValues
                      ELSE Range(Val(o.requested))) \ mergedConfig.excludeFields
       IN  IF target = {}
           THEN /\ calls' = calls
                /\ formValues' = formValues /\ dirtyFields' = dirtyFields
                /\ o.call = 0 /\ o.state = "resolved"
                /\ o.endLoading = Some(FALSE) /\ aiLoading' = FALSE
           ELSE /\ Len(calls') = Len(calls) + 1
                /\ o.call = Len(calls')
                /\ Range(calls'[o.call].fields) = target]_vars

\* an aiAutofill without fields asked the assistant for the one field that is
\* not excluded, and an aiAutofill for the excluded password returned at once
\* with aiLoading false and without a second provider call
C32_Witness ==
  /\ Len(aiOps) = 2 /\ Len(calls) = 1
  /\ aiOps[1].op = "aiAutofill" /\ aiOps[1].requested = Null
  /\ aiOps[1].call = 1 /\ calls[1].fields = <<"name">>
  /\ aiOps[2].op = "aiAutofill" /\ aiOps[2].requested = Some(<<"password">>)
  /\ aiOps[2].call = 0 /\ aiOps[2].state = "resolved"
  /\ aiOps[2].endLoading = Some(FALSE) /\ ~aiLoading

-----------------------------------------------------------------------------
(* Claims checked under SpecExec: the walk of the execution order *)

\* the enabled descriptors of kind t, by index
EnabledOfKind(cfg, t) ==
  {j \in 1..Len(cfg.providers) :
     cfg.providers[j].type = t /\ ~(Has(cfg.providers[j], "enabled") /\ ~cfg.providers[j].enabled)}

\* the order entries that have an enabled descriptor
Served(cfg) ==
  {i \in 1..Len(cfg.executionOrder) : EnabledOfKind(cfg, cfg.executionOrder[i]) # {}}

\* C33: the providers a run of executeAIProviders invokes are met by walking
\* the order left to right: every invocation is of an enabled descriptor of
\* the entry's kind, the entries of successive invocations strictly increase
\* (at most one invocation per entry), and the entries without an enabled
\* descriptor are passed over without ending the run, whatever fallbackOnError
\* is: the first invocation is at the first entry that has an enabled
\* descriptor, when an executor can be created for it.
C33_WalksOrderLeftToRight ==
  LET cfg  == effectiveConfig
      call == calls[1]
  IN  (enabled /\ Configured(cfg) /\ call.pc \in {"exec", "done"})
      => /\ \A k \in DOMAIN call.tried :
              /\ call.tried[k].pos \in Served(cfg)
              /\ call.tried[k].idx \in EnabledOfKind(cfg, cfg.executionOrder[call.tried[k].pos])
         /\ \A k, l \in DOMAIN call.tried : k < l => call.tried[k].pos < call.tried[l].pos
         /\ (Served(cfg) # {} /\ \A i \in Served(cfg) :
                \A j \in EnabledOfKind(cfg, cfg.executionOrder[i]) : CanCreate(cfg.providers[j]))
              => call.tried # <<>> /\ call.tried[1].pos = Min(Served(cfg))

\* with fallbackOnError off, the first order entry has only a disabled
\* descriptor and the run went on to invoke the enabled descriptor of the
\* second entry, which answered
C33_Witness ==
  /\ enabled /\ Configured(effectiveConfig) /\ ~effectiveConfig.fallbackOnError
  /\ effectiveConfig.executionOrder = <<"chrome", "openai">>
  /\ effectiveConfig.providers = <<[type |-> "chrome", enabled |-> FALSE], [type |-> "openai"]>>
  /\ calls[1].pc = "done" /\ Len(calls[1].tried) = 1
  /\ calls[1].tried[1].pos = 2 /\ calls[1].tried[1].idx = 2
  /\ calls[1].tried[1].outcome.kind = "value"

\* C37: of several enabled descriptors of one kind only the first in array
\* order is ever invoked for an order entry of that kind; a later one is never
\* tried, whatever the first one answers and whatever fallbackOnError is.
C37_OnlyFirstOfAKindInvoked ==
  LET cfg  == effectiveConfig
      call == calls[1]
  IN  (enabled /\ Configured(cfg))
      => \A k \in DOMAIN call.tried :
           \A j \in EnabledOfKind(cfg, cfg.executionOrder[call.tried[k].pos]) :
             call.tried[k].idx <= j

\* two enabled on-device descriptors, fallbackOnError on: the first one threw,
\* the run ended and the second one was never invoked
C37_Witness ==
  /\ enabled /\ Configured(effectiveConfig) /\ effectiveConfig.fallbackOnError
  /\ effectiveConfig.executionOrder = <<"chrome">>
  /\ EnabledOfKind(effectiveConfig, "chrome") = {1, 2}
  /\ calls[1].pc = "done" /\ Len(calls[1].tried) = 1
  /\ calls[1].tried[1].idx = 1 /\ calls[1].tried[1].outcome.kind = "throw"

-----------------------------------------------------------------------------
(* Claims checked under SpecFirst *)

\* what a finished or awaiting checkAvailability of the assistant asked: the
\* legacy capability, the on-device executor, or the hosted-LLM executor
CheckedKind(run) == IF run.via # "" THEN run.via ELSE "openai"

\* C34: the provider whose availability checkAvailability reports is the
\* provider executeAIProviders tries first under the same configuration: it
\* is an enabled descriptor, the one the first invocation of a suggestion
\* goes to, and never the legacy on-device capability when execution has a
\* provider to invoke.
C34_CheckedIsFirstTried ==
  \A r \in DOMAIN runs :
    (/\ runs[r].kind = "checkAvailability" /\ runs[r].pc # "start"
     /\ calls[1].tried # <<>>)
    => /\ CheckedKind(runs[r]) = calls[1].tried[1].type
       /\ FirstProvider(effectiveConfig) = calls[1].tried[1].idx
       /\ ~(Has(effectiveConfig.providers[FirstProvider(effectiveConfig)], "enabled")
            /\ ~effectiveConfig.providers[FirstProvider(effectiveConfig)].enabled)

-----------------------------------------------------------------------------
(* Claims checked under SpecForm: one armed timer per field *)

\* the timers of field f that are set and have neither fired nor been cleared
ArmedFor(log, f) == {t \in DOMAIN log : log[t].field = f /\ log[t].state = "armed"}

\* C35: under every interleaving of blur handlers, each of which awaits the
\* base onBlur before it touches the timer map, a field has at most one timer
\* that is armed and has not fired, and the step that arms a timer for a field
\* leaves no earlier timer of that field armed.
C35_OneArmedTimerPerField ==
  /\ [](\A f \in DOMAIN formValues :
         /\ Cardinality(ArmedFor(timerLog, f)) <= 1
         /\ ArmedFor(timerLog, f) = {t \in armed : timerLog[t].field = f})
  /\ [][Len(timerLog') = Len(timerLog) + 1 =>
         LET n == Len(timerLog')
         IN  /\ timerLog'[n].state = "armed" /\ n \in armed'
             /\ \A t \in 1..Len(timerLog) :
                  timerLog[t].field = timerLog'[n].field
                    => timerLog'[t].state # "armed" /\ t \notin armed']_vars

\* two blurs of the name field were both awaiting the base handler; the first
\* to resume armed a timer, the second cleared it and armed its own
C35_Witness ==
  /\ Len(timerLog) = 2 /\ blurs["name"] = 0
  /\ timerLog[1].field = "name" /\ timerLog[1].state = "cleared"
  /\ timerLog[2].field = "name" /\ timerLog[2].state = "armed"
  /\ armed = {2} /\ debounceTimers["name"] = 2

-----------------------------------------------------------------------------
(* Claims checked under SpecLoading: loading flag and download progress *)

\* C36: whenever aiLoading is false, aiDownloadProgress is null, also when two
\* aiAutofill invocations overlap and one of them ends while the other still
\* receives download-progress callbacks.
C36_IdleMeansNoProgress ==
  ~aiLoading => aiDownloadProgress = Null

-----------------------------------------------------------------------------
(* Claims checked under SpecToggle *)

\* C38: no field of the form ever holds the marker 'AI disabled' and no
\* assistant call of aiAutofill returns the marker map; an aiAutofill invoked
\* while the effective enabled flag is false returns before it calls the
\* assistant, sets no loading flag and writes no field.
C38_DisabledMarkerNeverWritten ==
  /\ [](/\ \A f \in DOMAIN formValues : formValues[f] # "AI disabled"
        /\ \A c \in DOMAIN calls : calls[c].ret # Some(DisabledMap(calls[c].fields)))
  /\ [][(/\ ~mergedConfig.enabled
          /\ Len(aiOps') = Len(aiOps) + 1
          /\ aiOps'[Len(aiOps')].op = "aiAutofill")
        => /\ calls' = calls
           /\ aiLoading' = aiLoading /\ aiDownloadProgress' = aiDownloadProgress
           /\ formValues' = formValues /\ dirtyFields' = dirtyFields
           /\ ~aiOps'[Len(aiOps')].setLoading
           /\ aiOps'[Len(aiOps')].state = "resolved"]_vars

\* an aiAutofill of the enabled form filled the name field; the form was then
\* re-rendered with AI off and a second aiAutofill returned without a call,
\* without the loading flag and without a write
C38_Witness ==
  /\ ~mergedConfig.enabled /\ ~enabled
  /\ Len(aiOps) = 2 /\ Len(calls) = 1
  /\ aiOps[1].op = "aiAutofill" /\ aiOps[1].setLoading /\ aiOps[1].state = "resolved"
  /\ formValues["name"] = "ai1_name"
  /\ aiOps[2].op = "aiAutofill" /\ ~aiOps[2].setLoading /\ aiOps[2].call = 0
  /\ ~aiLoading

-----------------------------------------------------------------------------
(* Claims checked under SpecRefresh: overlapping refreshes *)

\* C39: once every refreshAvailability call has settled, aiAvailability holds
\* the result of the call that was started last; an earlier call that settles
\* later does not overwrite it.
C39_LastStartedRefreshWins ==
  (refreshes # <<>> /\ \A i \in DOMAIN refreshes : refreshes[i].state = "resolved")
  => aiAvailability = RefreshOutcome(runs[refreshes[Len(refreshes)].run])

-----------------------------------------------------------------------------
(* Claims checked under SpecStale *)

\* C40: every refreshAvailability checks the provider that the form's current
\* effective configuration puts first: after the providers or the
\* executionOrder of the form have changed, a refresh asks the provider that
\* is first now, not the one that was first at the first render.
C40_RefreshChecksCurrentFirst ==
  [][Len(refreshes') = Len(refreshes) + 1 =>
       LET run == runs'[refreshes'[Len(refreshes')].run]
           j   == FirstProvider(effectiveConfig)
       IN  j # 0 /\ CheckedKind(run) = effectiveConfig.providers[j].type]_vars
====
